---- MODULE Spec2Model ----
(***************************************************************************)
(* Query value extraction of package query (pkg/query/query.go).           *)
(*                                                                         *)
(* A string is a sequence of characters; a character is a one-character    *)
(* TLA+ string, or a short name for a character that has no printable      *)
(* form ("NUL", "NBSP", "KELVIN", ...).  A Go slice is a record            *)
(* [isNil, elems]; the zero-length nil slice and the zero-length literal   *)
(* []T{} are different values.  A (value, error) pair is [val, err] with   *)
(* err = "nil" for success.                                                *)
(***************************************************************************)
EXTENDS Naturals, Sequences, FiniteSets, TLC

VARIABLES
    r,          \* the *http.Request handed to every call: [URL |-> [RawQuery |-> ...]]
    r0,         \* the request as the handler received it
    intSize,    \* width of Go's int in this build (strconv.IntSize): 32 or 64
    ret,        \* the last call made by the handler, with its arguments and result
    callers     \* the calls in flight of the goroutines that share the request

vars == <<r, r0, intSize, ret, callers>>

(***************************************************************************)
(* Bounds of the model.                                                    *)
(***************************************************************************)
MaxParams == 2      \* most "&"-separated fields in a query string

(***************************************************************************)
(* Characters and strings.                                                 *)
(***************************************************************************)
EmptyString == <<>>

NilSlice == [isNil |-> TRUE, elems |-> <<>>]

EmptySlice == [isNil |-> FALSE, elems |-> <<>>]

MakeSlice(elems) == [isNil |-> FALSE, elems |-> elems]

len(slice) == Len(slice.elems)

Digits == <<"0", "1", "2", "3", "4", "5", "6", "7", "8", "9">>

UpperLetters == <<"A", "B", "C", "D", "E", "F", "G", "H", "I", "J", "K", "L", "M",
                  "N", "O", "P", "Q", "R", "S", "T", "U", "V", "W", "X", "Y", "Z">>

LowerLetters == <<"a", "b", "c", "d", "e", "f", "g", "h", "i", "j", "k", "l", "m",
                  "n", "o", "p", "q", "r", "s", "t", "u", "v", "w", "x", "y", "z">>

IndexOf(seq, c) == IF \E i \in 1..Len(seq) : seq[i] = c
                   THEN CHOOSE i \in 1..Len(seq) : seq[i] = c
                   ELSE 0

IsDigit(c) == IndexOf(Digits, c) # 0

DigitVal(c) == IndexOf(Digits, c) - 1

\* unicode.ToLower: the ASCII capitals, and the two non-ASCII characters whose
\* lower case is an ASCII letter (KELVIN SIGN U+212A, dotted capital I U+0130).
ToLowerRune(c) ==
    IF IndexOf(UpperLetters, c) # 0 THEN LowerLetters[IndexOf(UpperLetters, c)]
    ELSE IF c = "KELVIN" THEN "k"
    ELSE IF c = "IDOT" THEN "i"
    ELSE c

ToLower(s) == [i \in 1..Len(s) |-> ToLowerRune(s[i])]

\* unicode.IsSpace: '\t', '\n', '\v', '\f', '\r', ' ', U+0085 (NEL), U+00A0 (NBSP), ...
IsSpace(c) == c \in {" ", "\t", "\n", "VT", "\f", "\r", "NEL", "NBSP"}

RECURSIVE TrimLeft(_)
TrimLeft(s) == IF s # <<>> /\ IsSpace(Head(s)) THEN TrimLeft(Tail(s)) ELSE s

RECURSIVE TrimRight(_)
TrimRight(s) == IF s # <<>> /\ IsSpace(s[Len(s)])
                THEN TrimRight(SubSeq(s, 1, Len(s) - 1))
                ELSE s

TrimSpace(s) == TrimRight(TrimLeft(s))

Contains(s, c) == \E i \in 1..Len(s) : s[i] = c

\* strings.Cut(s, sep) for a one-character separator.
Cut(s, sep) ==
    LET i == IndexOf(s, sep)
    IN  IF i = 0
        THEN [before |-> s, after |-> <<>>, found |-> FALSE]
        ELSE [before |-> SubSeq(s, 1, i - 1), after |-> SubSeq(s, i + 1, Len(s)), found |-> TRUE]

(***************************************************************************)
(* r.URL.Query(): net/url's ParseQuery over the fields of RawQuery.        *)
(* RawQuery is kept as the sequence of its "&"-separated fields.           *)
(***************************************************************************)
HexDigits == <<"0", "1", "2", "3", "4", "5", "6", "7", "8", "9",
               "a", "b", "c", "d", "e", "f">>

ishex(c) == IndexOf(HexDigits, ToLowerRune(c)) # 0 /\ c \notin {"KELVIN", "IDOT"}

\* the characters 0x20 .. 0x7e
PrintableASCII ==
    <<" ", "!", "\"", "#", "$", "%", "&", "'", "(", ")", "*", "+", ",", "-", ".", "/",
      "0", "1", "2", "3", "4", "5", "6", "7", "8", "9", ":", ";", "<", "=", ">", "?",
      "@", "A", "B", "C", "D", "E", "F", "G", "H", "I", "J", "K", "L", "M", "N", "O",
      "P", "Q", "R", "S", "T", "U", "V", "W", "X", "Y", "Z", "[", "\\", "]", "^", "_",
      "BACKQUOTE", "a", "b", "c", "d", "e", "f", "g", "h", "i", "j", "k", "l", "m", "n", "o",
      "p", "q", "r", "s", "t", "u", "v", "w", "x", "y", "z", "{", "|", "}", "~">>

\* The byte a %XX escape stands for.
unhexByte(h1, h2) ==
    LET code == 16 * (IndexOf(HexDigits, ToLowerRune(h1)) - 1) + (IndexOf(HexDigits, ToLowerRune(h2)) - 1)
    IN  IF code >= 32 /\ code <= 126 THEN PrintableASCII[code - 31]
        ELSE CASE code = 0  -> "NUL"
               [] code = 9  -> "\t"
               [] code = 10 -> "\n"
               [] code = 11 -> "VT"
               [] code = 12 -> "\f"
               [] code = 13 -> "\r"
               [] OTHER -> "\\x" \o ToLowerRune(h1) \o ToLowerRune(h2)

\* url.QueryUnescape: "+" is a space, %XX is a byte, a "%" that is not followed
\* by two hex digits is an error.
RECURSIVE QueryUnescape(_)
QueryUnescape(s) ==
    IF s = <<>> THEN [val |-> <<>>, err |-> "nil"]
    ELSE IF Head(s) = "%"
    THEN IF Len(s) < 3 \/ ~ishex(s[2]) \/ ~ishex(s[3])
         THEN [val |-> <<>>, err |-> "EscapeError"]
         ELSE LET rest == QueryUnescape(SubSeq(s, 4, Len(s)))
              IN  IF rest.err # "nil" THEN rest
                  ELSE [val |-> <<unhexByte(s[2], s[3])>> \o rest.val, err |-> "nil"]
    ELSE LET rest == QueryUnescape(Tail(s))
         IN  IF rest.err # "nil" THEN rest
             ELSE [val |-> <<IF Head(s) = "+" THEN " " ELSE Head(s)>> \o rest.val,
                   err |-> "nil"]

EmptyValues == [k \in {} |-> <<>>]

\* m[key] = append(m[key], value)
AppendValue(m, key, value) ==
    IF key \in DOMAIN m
    THEN [m EXCEPT ![key] = Append(@, value)]
    ELSE m @@ (key :> <<value>>)

\* url.parseQuery: a field with ";" or a bad escape is dropped (the error is
\* ignored by URL.Query), an empty field is skipped, the rest is cut at the
\* first "=" and appended under its key in order of appearance.
RECURSIVE parseQuery(_, _)
parseQuery(m, query) ==
    IF query = <<>> THEN m
    ELSE LET field == Head(query)
             kv    == Cut(field, "=")
             key   == QueryUnescape(kv.before)
             value == QueryUnescape(kv.after)
         IN  IF Contains(field, ";") \/ field = <<>> THEN parseQuery(m, Tail(query))
             ELSE IF key.err # "nil" \/ value.err # "nil" THEN parseQuery(m, Tail(query))
             ELSE parseQuery(AppendValue(m, key.val, value.val), Tail(query))

\* (*URL).Query
Query(u) == parseQuery(EmptyValues, u.RawQuery)

\* Values.Get: the first value of the key, "" when there is none.
Get(v, key) ==
    IF key \notin DOMAIN v THEN EmptyString
    ELSE IF Len(v[key]) = 0 THEN EmptyString
    ELSE v[key][1]

\* v[key] on a Go map: the recorded slice, or the nil slice for a missing key.
MapIndex(v, key) == IF key \in DOMAIN v THEN MakeSlice(v[key]) ELSE NilSlice

(***************************************************************************)
(* The package's functions.                                                *)
(***************************************************************************)
\* a variant of String that returns the first value whatever it is
StringAlways(req, key, defaultValue) == Get(Query(req.URL), key)

\* a variant of String that falls back only when the key is missing
StringUnlessMissing(req, key, defaultValue) ==
    IF key \in DOMAIN Query(req.URL) THEN Get(Query(req.URL), key) ELSE defaultValue

String(req, key, defaultValue) ==
    LET val == Get(Query(req.URL), key)
    IN  IF val = EmptyString THEN defaultValue ELSE val

\* a variant of parseBool with the vocabulary of strconv.ParseBool
parseBoolStrconv(s) ==
    IF s \in {<<"1">>, <<"t">>, <<"T">>, <<"t", "r", "u", "e">>, <<"T", "R", "U", "E">>,
              <<"T", "r", "u", "e">>}
    THEN [val |-> TRUE, err |-> "nil"]
    ELSE IF s \in {<<"0">>, <<"f">>, <<"F">>, <<"f", "a", "l", "s", "e">>,
                   <<"F", "A", "L", "S", "E">>, <<"F", "a", "l", "s", "e">>}
    THEN [val |-> FALSE, err |-> "nil"]
    ELSE [val |-> FALSE, err |-> "ErrSyntax"]

\* a variant of parseBool that takes every unrecognised string for false
parseBoolLenient(s) ==
    LET lower == ToLower(TrimSpace(s))
    IN  IF lower \in {<<"t", "r", "u", "e">>, <<"1">>, <<"y", "e", "s">>, <<"o", "n">>, <<"y">>}
        THEN [val |-> TRUE, err |-> "nil"]
        ELSE [val |-> FALSE, err |-> "nil"]

parseBool(s) ==
    LET lower == ToLower(TrimSpace(s))
    IN  IF lower \in {<<"t", "r", "u", "e">>, <<"1">>, <<"y", "e", "s">>, <<"o", "n">>, <<"y">>}
        THEN [val |-> TRUE, err |-> "nil"]
        ELSE IF lower \in {<<"f", "a", "l", "s", "e">>, <<"0">>, <<"n", "o">>,
                           <<"o", "f", "f">>, <<"n">>}
        THEN [val |-> FALSE, err |-> "nil"]
        ELSE [val |-> FALSE, err |-> "ErrSyntax"]

\* a variant of BoolCalls for a Bool that leaves the empty value to parseBool
BoolCallsMerged(req, key, defaultValue) == <<Get(Query(req.URL), key)>>

\* the arguments of the calls of parseBool that Bool makes, in order
BoolCalls(req, key, defaultValue) ==
    LET val == Get(Query(req.URL), key)
    IN  IF val = EmptyString THEN <<>> ELSE <<val>>

\* a variant of Bool that goes on to the next value when one does not parse
BoolFirstValid(req, key, defaultValue) ==
    LET vals == MapIndex(Query(req.URL), key).elems
        good == SelectSeq(vals, LAMBDA v : v # EmptyString /\ parseBool(v).err = "nil")
    IN  IF good = <<>> THEN defaultValue ELSE parseBool(good[1]).val

Bool(req, key, defaultValue) ==
    LET val == Get(Query(req.URL), key)
    IN  IF val = EmptyString THEN defaultValue
        ELSE LET parsed == parseBool(val)
             IN  IF parsed.err # "nil" THEN defaultValue ELSE parsed.val

\* a variant of Strings that leaves out the empty values
StringsNonEmpty(req, key) ==
    MakeSlice(SelectSeq(MapIndex(Query(req.URL), key).elems, LAMBDA v : v # EmptyString))

\* a variant of Strings without the nil check
StringsUnchecked(req, key) == MapIndex(Query(req.URL), key)

Strings(req, key) ==
    LET vals == MapIndex(Query(req.URL), key)
    IN  IF vals.isNil THEN EmptySlice ELSE vals

\* a variant of Has that asks for a first value that is not empty
HasValue(req, key) == Get(Query(req.URL), key) # EmptyString

Has(req, key) == key \in DOMAIN Query(req.URL)

\* a variant of Count that counts the repetitions
CountRepeats(req, key) ==
    IF len(MapIndex(Query(req.URL), key)) = 0 THEN 0
    ELSE len(MapIndex(Query(req.URL), key)) - 1

\* a variant of Count that counts the values that are not empty
CountNonEmpty(req, key) ==
    Len(SelectSeq(MapIndex(Query(req.URL), key).elems, LAMBDA v : v # EmptyString))

Count(req, key) == len(MapIndex(Query(req.URL), key))

\* a variant of IsMultiple that is true from one value on
IsMultipleFromOne(req, key) == len(MapIndex(Query(req.URL), key)) > 0

IsMultiple(req, key) == len(MapIndex(Query(req.URL), key)) > 1

(***************************************************************************)
(* Integers.  A parsed integer is [neg, mag]: its sign and its magnitude   *)
(* as a sequence of decimal digits without leading zeros (<<0>> for zero), *)
(* so that the 64-bit limits are exact.                                    *)
(***************************************************************************)
RECURSIVE Norm(_)
Norm(mag) == IF Len(mag) > 1 /\ Head(mag) = 0 THEN Norm(Tail(mag)) ELSE mag

RECURSIVE LexLess(_, _)
LexLess(a, b) ==
    IF a = <<>> THEN FALSE
    ELSE IF Head(a) # Head(b) THEN Head(a) < Head(b)
    ELSE LexLess(Tail(a), Tail(b))

\* a < b for normalised magnitudes
MagLess(a, b) ==
    IF Len(a) # Len(b) THEN Len(a) < Len(b) ELSE LexLess(a, b)

RECURSIVE NatMag(_)
NatMag(n) == IF n < 10 THEN <<n>> ELSE Append(NatMag(n \div 10), n % 10)

Negate(n) == IF n.mag = <<0>> THEN n ELSE [n EXCEPT !.neg = ~n.neg]

\* the value of a small integer literal n of the source, and of -n
IntLit(n) == [neg |-> FALSE, mag |-> NatMag(n)]

NegLit(n) == Negate(IntLit(n))

\* 1<<bitSize - 1
MaxUint(bitSize) ==
    IF bitSize = 32 THEN <<4, 2, 9, 4, 9, 6, 7, 2, 9, 5>>
    ELSE <<1, 8, 4, 4, 6, 7, 4, 4, 0, 7, 3, 7, 0, 9, 5, 5, 1, 6, 1, 5>>

\* 1 << (bitSize-1)
SignCutoff(bitSize) ==
    IF bitSize = 32 THEN <<2, 1, 4, 7, 4, 8, 3, 6, 4, 8>>
    ELSE <<9, 2, 2, 3, 3, 7, 2, 0, 3, 6, 8, 5, 4, 7, 7, 5, 8, 0, 8>>

\* 1 << (bitSize-1) - 1
SignCutoffLessOne(bitSize) ==
    IF bitSize = 32 THEN <<2, 1, 4, 7, 4, 8, 3, 6, 4, 7>>
    ELSE <<9, 2, 2, 3, 3, 7, 2, 0, 3, 6, 8, 5, 4, 7, 7, 5, 8, 0, 7>>

\* the digit loop of strconv.ParseUint in base 10: stops at the first
\* character that is not a digit (syntax) or at the first digit that takes
\* the value above 1<<bitSize - 1 (range, with the maximum as value).
RECURSIVE parseUintLoop(_, _, _)
parseUintLoop(n, s, bitSize) ==
    IF s = <<>> THEN [val |-> n, err |-> "nil"]
    ELSE IF ~IsDigit(Head(s)) THEN [val |-> <<0>>, err |-> "ErrSyntax"]
    ELSE LET n1 == Norm(Append(n, DigitVal(Head(s))))
         IN  IF MagLess(MaxUint(bitSize), n1)
             THEN [val |-> MaxUint(bitSize), err |-> "ErrRange"]
             ELSE parseUintLoop(n1, Tail(s), bitSize)

ParseUint(s, bitSize) ==
    IF s = <<>> THEN [val |-> <<0>>, err |-> "ErrSyntax"]
    ELSE parseUintLoop(<<0>>, s, IF bitSize = 0 THEN intSize ELSE bitSize)

\* strconv.ParseInt(s, 10, bitSize)
ParseInt(s, bitSize) ==
    IF s = <<>> THEN [val |-> IntLit(0), err |-> "ErrSyntax"]
    ELSE LET neg  == Head(s) = "-"
             body == IF Head(s) \in {"+", "-"} THEN Tail(s) ELSE s
             un   == ParseUint(body, bitSize)
             bits == IF bitSize = 0 THEN intSize ELSE bitSize
         IN  IF un.err = "ErrSyntax" THEN [val |-> IntLit(0), err |-> "ErrSyntax"]
             ELSE IF ~neg /\ ~MagLess(un.val, SignCutoff(bits))
             THEN [val |-> [neg |-> FALSE, mag |-> SignCutoffLessOne(bits)], err |-> "ErrRange"]
             ELSE IF neg /\ MagLess(SignCutoff(bits), un.val)
             THEN [val |-> [neg |-> TRUE, mag |-> SignCutoff(bits)], err |-> "ErrRange"]
             ELSE [val |-> IF neg THEN Negate([neg |-> FALSE, mag |-> un.val])
                                  ELSE [neg |-> FALSE, mag |-> un.val],
                   err |-> "nil"]

\* the fast path of strconv.Atoi
RECURSIVE atoiFastLoop(_, _)
atoiFastLoop(n, s) ==
    IF s = <<>> THEN [val |-> n, err |-> "nil"]
    ELSE IF ~IsDigit(Head(s)) THEN [val |-> <<0>>, err |-> "ErrSyntax"]
    ELSE atoiFastLoop(Norm(Append(n, DigitVal(Head(s)))), Tail(s))

\* strconv.Atoi
Atoi(s) ==
    IF (intSize = 32 /\ 0 < Len(s) /\ Len(s) < 10) \/ (intSize = 64 /\ 0 < Len(s) /\ Len(s) < 19)
    THEN LET body == IF Head(s) \in {"+", "-"} THEN Tail(s) ELSE s
             n    == atoiFastLoop(<<0>>, body)
         IN  IF body = <<>> \/ n.err # "nil" THEN [val |-> IntLit(0), err |-> "ErrSyntax"]
             ELSE [val |-> IF Head(s) = "-" THEN Negate([neg |-> FALSE, mag |-> n.val])
                                            ELSE [neg |-> FALSE, mag |-> n.val],
                   err |-> "nil"]
    ELSE ParseInt(s, 0)

\* a variant of Int that returns what Atoi returned beside its error
IntIgnoringErr(req, key, defaultValue) ==
    LET val == Get(Query(req.URL), key)
    IN  IF val = EmptyString THEN defaultValue ELSE Atoi(val).val

\* a variant of Int that takes zero and negative numbers for missing
IntPositiveOnly(req, key, defaultValue) ==
    LET val == Get(Query(req.URL), key)
    IN  IF val = EmptyString THEN defaultValue
        ELSE LET parsed == Atoi(val)
             IN  IF parsed.err # "nil" \/ parsed.val.neg \/ parsed.val.mag = <<0>>
                 THEN defaultValue ELSE parsed.val

Int(req, key, defaultValue) ==
    LET val == Get(Query(req.URL), key)
    IN  IF val = EmptyString THEN defaultValue
        ELSE LET parsed == Atoi(val)
             IN  IF parsed.err # "nil" THEN defaultValue ELSE parsed.val

\* a variant of Int64 that does not look at the error
Int64IgnoringErr(req, key, defaultValue) ==
    LET val == Get(Query(req.URL), key)
    IN  IF val = EmptyString THEN defaultValue ELSE ParseInt(val, 64).val

Int64(req, key, defaultValue) ==
    LET val == Get(Query(req.URL), key)
    IN  IF val = EmptyString THEN defaultValue
        ELSE LET parsed == ParseInt(val, 64)
             IN  IF parsed.err # "nil" THEN defaultValue ELSE parsed.val

(***************************************************************************)
(* Floating point.  A parsed float64 is [kind, neg, base, mant, exp]:      *)
(* kind "finite" stands for 0.mant * 10^exp (base 10; mant a digit         *)
(* sequence without leading or trailing zeros) or 0.mant * 2^exp (base 16, *)
(* a hexadecimal literal), zero is mant = <<0>>; kinds "inf" and "nan" are *)
(* the special values.  The range limits of float64 are kept (overflow is  *)
(* an error, underflow gives zero); the rounding of the mantissa to 53     *)
(* bits is not: a value is identified with the number its literal denotes. *)
(* exp is a signed integer [neg, n].                                       *)
(***************************************************************************)
SNat(n) == [neg |-> FALSE, n |-> n]

SNeg(a) == IF a.n = 0 THEN a ELSE [a EXCEPT !.neg = ~a.neg]

SAdd(a, b) ==
    IF a.neg = b.neg THEN [neg |-> a.neg, n |-> a.n + b.n]
    ELSE IF a.n = b.n THEN SNat(0)
    ELSE IF a.n > b.n THEN [neg |-> a.neg, n |-> a.n - b.n]
    ELSE [neg |-> b.neg, n |-> b.n - a.n]

SLess(a, b) ==
    IF a.neg /\ ~b.neg THEN TRUE
    ELSE IF ~a.neg /\ b.neg THEN FALSE
    ELSE IF a.neg THEN b.n < a.n
    ELSE a.n < b.n

RECURSIVE StripTrailingZeros(_)
StripTrailingZeros(mant) ==
    IF mant # <<>> /\ mant[Len(mant)] = 0
    THEN StripTrailingZeros(SubSeq(mant, 1, Len(mant) - 1))
    ELSE mant

\* 0.a < 0.b for digit sequences read as fractions
RECURSIVE FracLess(_, _)
FracLess(a, b) ==
    IF b = <<>> THEN FALSE
    ELSE IF a = <<>> THEN \E i \in 1..Len(b) : b[i] # 0
    ELSE IF Head(a) # Head(b) THEN Head(a) < Head(b)
    ELSE FracLess(Tail(a), Tail(b))

FloatZero(neg) == [kind |-> "finite", neg |-> neg, base |-> 10, mant |-> <<0>>, exp |-> SNat(0)]

FloatInf(neg) == [kind |-> "inf", neg |-> neg, base |-> 10, mant |-> <<0>>, exp |-> SNat(0)]

FloatNaN == [kind |-> "nan", neg |-> FALSE, base |-> 10, mant |-> <<0>>, exp |-> SNat(0)]

\* the float64 literal 0.mant * 10^exp of the source
FloatLit(neg, mant, exp) ==
    [kind |-> "finite", neg |-> neg, base |-> 10, mant |-> mant, exp |-> exp]

\* halfway between the largest float64 and 2^1024, as 0.1797...e309: a decimal
\* at or above it overflows
OverflowFrac == <<1, 7, 9, 7, 6, 9, 3, 1, 3, 4, 8, 6, 2, 3, 1, 5, 8, 0, 7, 9, 3, 7, 2, 8, 9, 7, 1, 4, 0, 5, 3>>

\* half the smallest denormal, 2^-1075, as 0.2470...e-323: a decimal at or
\* below it rounds to zero
UnderflowFrac == <<2, 4, 7, 0, 3, 2, 8, 2, 2, 9, 2, 0, 6, 2, 3, 2, 7, 2, 0, 8, 0, 5, 1, 0, 2, 0>>

\* strconv's commonPrefixLenIgnoreCase(s, prefix), prefix in lower case
RECURSIVE commonPrefixLenIgnoreCase(_, _)
commonPrefixLenIgnoreCase(s, prefix) ==
    IF s = <<>> \/ prefix = <<>> THEN 0
    ELSE LET c == IF IndexOf(UpperLetters, Head(s)) # 0
                  THEN LowerLetters[IndexOf(UpperLetters, Head(s))]
                  ELSE Head(s)
         IN  IF c # Head(prefix) THEN 0
             ELSE 1 + commonPrefixLenIgnoreCase(Tail(s), Tail(prefix))

\* strconv's special: [val, n, ok] for the prefixes "inf", "infinity" (with an
\* optional sign) and "nan" (without)
special(s) ==
    LET none == [val |-> FloatNaN, n |-> 0, ok |-> FALSE]
    IN  IF s = <<>> THEN none
        ELSE IF Head(s) \in {"+", "-", "i", "I"}
        THEN LET nsign == IF Head(s) \in {"+", "-"} THEN 1 ELSE 0
                 body  == IF nsign = 1 THEN Tail(s) ELSE s
                 n0    == commonPrefixLenIgnoreCase(body, <<"i", "n", "f", "i", "n", "i", "t", "y">>)
                 n     == IF 3 < n0 /\ n0 < 8 THEN 3 ELSE n0
             IN  IF n = 3 \/ n = 8
                 THEN [val |-> FloatInf(Head(s) = "-"), n |-> nsign + n, ok |-> TRUE]
                 ELSE none
        ELSE IF Head(s) \in {"n", "N"}
        THEN IF commonPrefixLenIgnoreCase(s, <<"n", "a", "n">>) = 3
             THEN [val |-> FloatNaN, n |-> 3, ok |-> TRUE]
             ELSE none
        ELSE none

\* strconv's underscoreOK: underscores only between digits, or between a base
\* prefix and a digit
RECURSIVE underscoreLoop(_, _, _)
underscoreLoop(s, saw, hex) ==
    IF s = <<>> THEN saw # "_"
    ELSE LET c == Head(s)
         IN  IF IsDigit(c) \/ (hex /\ IndexOf(HexDigits, ToLowerRune(c)) # 0 /\ c \notin {"KELVIN", "IDOT"})
             THEN underscoreLoop(Tail(s), "0", hex)
             ELSE IF c = "_"
             THEN IF saw # "0" THEN FALSE ELSE underscoreLoop(Tail(s), "_", hex)
             ELSE IF saw = "_" THEN FALSE
             ELSE underscoreLoop(Tail(s), "!", hex)

underscoreOK(s) ==
    LET body   == IF s # <<>> /\ Head(s) \in {"+", "-"} THEN Tail(s) ELSE s
        prefix == Len(body) >= 2 /\ body[1] = "0" /\ body[2] \in {"b", "B", "o", "O", "x", "X"}
    IN  IF prefix
        THEN underscoreLoop(SubSeq(body, 3, Len(body)), "0", body[2] \in {"x", "X"})
        ELSE underscoreLoop(body, "^", FALSE)

\* the mantissa loop of strconv's readFloat, from position i (1-based)
RECURSIVE readMantissa(_, _, _)
readMantissa(s, i, st) ==
    IF i > Len(s) THEN [st EXCEPT !.i = i]
    ELSE LET c == s[i]
         IN  IF c = "_" THEN readMantissa(s, i + 1, [st EXCEPT !.underscores = TRUE])
             ELSE IF c = "."
             THEN IF st.sawdot THEN [st EXCEPT !.i = i]
                  ELSE readMantissa(s, i + 1, [st EXCEPT !.sawdot = TRUE, !.dp = SNat(st.nd)])
             ELSE IF IsDigit(c)
             THEN IF c = "0" /\ st.nd = 0
                  THEN readMantissa(s, i + 1, [st EXCEPT !.sawdigits = TRUE,
                                                         !.dp = SAdd(@, SNeg(SNat(1)))])
                  ELSE readMantissa(s, i + 1, [st EXCEPT !.sawdigits = TRUE, !.nd = @ + 1,
                                                         !.mant = Append(@, DigitVal(c))])
             ELSE IF st.base = 16 /\ ToLowerRune(c) \in {"a", "b", "c", "d", "e", "f"}
                     /\ c \notin {"KELVIN", "IDOT"}
             THEN readMantissa(s, i + 1, [st EXCEPT !.sawdigits = TRUE, !.nd = @ + 1,
                                                    !.mant = Append(@, IndexOf(HexDigits, ToLowerRune(c)) - 1)])
             ELSE [st EXCEPT !.i = i]

\* the digits of the exponent: e = e*10 + digit while e < 10000
RECURSIVE readExponent(_, _, _)
readExponent(s, i, st) ==
    IF i > Len(s) \/ ~(IsDigit(s[i]) \/ s[i] = "_") THEN [st EXCEPT !.i = i]
    ELSE IF s[i] = "_" THEN readExponent(s, i + 1, [st EXCEPT !.underscores = TRUE])
    ELSE readExponent(s, i + 1,
                      [st EXCEPT !.e = IF @ < 10000 THEN @ * 10 + DigitVal(s[i]) ELSE @])

\* strconv's readFloat: [ok, i, neg, hex, mant, dp] with the value 0.mant * base^..;
\* i is the first position not consumed
readFloat(s) ==
    LET fail  == [ok |-> FALSE, i |-> 1, neg |-> FALSE, hex |-> FALSE, mant |-> <<>>, dp |-> SNat(0)]
        neg   == s # <<>> /\ Head(s) = "-"
        i0    == IF s # <<>> /\ Head(s) \in {"+", "-"} THEN 2 ELSE 1
        hex   == i0 + 2 <= Len(s) /\ s[i0] = "0" /\ s[i0 + 1] \in {"x", "X"}
        i1    == IF hex THEN i0 + 2 ELSE i0
        m     == readMantissa(s, i1, [i |-> i1, base |-> IF hex THEN 16 ELSE 10,
                                      sawdot |-> FALSE, sawdigits |-> FALSE, nd |-> 0,
                                      dp |-> SNat(0), mant |-> <<>>, underscores |-> FALSE, e |-> 0])
        dp0   == IF m.sawdot THEN m.dp ELSE SNat(m.nd)
        dp1   == IF hex THEN [dp0 EXCEPT !.n = @ * 4] ELSE dp0
        isExp == m.i <= Len(s) /\ ToLowerRune(s[m.i]) = (IF hex THEN "p" ELSE "e")
                 /\ s[m.i] # "KELVIN"
        j0    == m.i + 1
        esign == j0 <= Len(s) /\ s[j0] = "-"
        j1    == IF j0 <= Len(s) /\ s[j0] \in {"+", "-"} THEN j0 + 1 ELSE j0
        x     == readExponent(s, j1, m)
        dp2   == SAdd(dp1, IF esign THEN SNeg(SNat(x.e)) ELSE SNat(x.e))
    IN  IF s = <<>> THEN fail
        ELSE IF ~m.sawdigits THEN fail
        ELSE IF isExp
        THEN IF j0 > Len(s) \/ j1 > Len(s) \/ ~IsDigit(s[j1]) THEN fail
             ELSE IF x.underscores /\ ~underscoreOK(SubSeq(s, 1, x.i - 1)) THEN fail
             ELSE [ok |-> TRUE, i |-> x.i, neg |-> neg, hex |-> hex, mant |-> m.mant, dp |-> dp2]
        ELSE IF hex THEN fail
        ELSE IF m.underscores /\ ~underscoreOK(SubSeq(s, 1, m.i - 1)) THEN fail
        ELSE [ok |-> TRUE, i |-> m.i, neg |-> neg, hex |-> hex, mant |-> m.mant, dp |-> dp1]

\* number of bits of a hexadecimal digit
BitLen(d) == IF d >= 8 THEN 4 ELSE IF d >= 4 THEN 3 ELSE IF d >= 2 THEN 2 ELSE 1

\* the value read, within the range of float64: [val, err]
atofRange(f) ==
    LET mant == StripTrailingZeros(f.mant)
    IN  IF mant = <<>> THEN [val |-> FloatZero(f.neg), err |-> "nil"]
        ELSE IF f.hex
        THEN IF SLess(SNat(1024 + 4), SAdd(f.dp, SNat(BitLen(Head(mant)))))
             THEN [val |-> FloatInf(f.neg), err |-> "ErrRange"]
             ELSE IF SLess(SAdd(f.dp, SNat(BitLen(Head(mant)))), SNeg(SNat(1074 - 4)))
             THEN [val |-> FloatZero(f.neg), err |-> "nil"]
             ELSE [val |-> [kind |-> "finite", neg |-> f.neg, base |-> 16, mant |-> mant, exp |-> f.dp],
                   err |-> "nil"]
        ELSE IF SLess(SNat(309), f.dp)
                \/ (f.dp = SNat(309) /\ ~FracLess(mant, OverflowFrac))
        THEN [val |-> FloatInf(f.neg), err |-> "ErrRange"]
        ELSE IF SLess(f.dp, SNeg(SNat(323)))
                \/ (f.dp = SNeg(SNat(323)) /\ ~FracLess(UnderflowFrac, mant))
        THEN [val |-> FloatZero(f.neg), err |-> "nil"]
        ELSE [val |-> FloatLit(f.neg, mant, f.dp), err |-> "nil"]

\* strconv.ParseFloat(s, 64)
ParseFloat(s) ==
    LET sp == special(s)
        f  == readFloat(s)
    IN  IF sp.ok
        THEN IF sp.n # Len(s) THEN [val |-> FloatZero(FALSE), err |-> "ErrSyntax"]
             ELSE [val |-> sp.val, err |-> "nil"]
        ELSE IF ~f.ok THEN [val |-> FloatZero(FALSE), err |-> "ErrSyntax"]
        ELSE IF f.i # Len(s) + 1 THEN [val |-> FloatZero(FALSE), err |-> "ErrSyntax"]
        ELSE atofRange(f)

\* a variant of Float64 that trims white space before it parses
Float64Trimmed(req, key, defaultValue) ==
    LET val == Get(Query(req.URL), key)
    IN  IF val = EmptyString THEN defaultValue
        ELSE LET parsed == ParseFloat(TrimSpace(val))
             IN  IF parsed.err # "nil" THEN defaultValue ELSE parsed.val

Float64(req, key, defaultValue) ==
    LET val == Get(Query(req.URL), key)
    IN  IF val = EmptyString THEN defaultValue
        ELSE LET parsed == ParseFloat(val)
             IN  IF parsed.err # "nil" THEN defaultValue ELSE parsed.val

(***************************************************************************)
(* Sequence extraction.                                                    *)
(***************************************************************************)
\* a variant of sliceElem that keeps what the parser returned beside its error
sliceElemIgnoringErr(parsed, defaultValue) == parsed.val

\* the element Slice stores at one position, given what the parser returned
sliceElem(parsed, defaultValue) ==
    IF parsed.err # "nil" THEN defaultValue ELSE parsed.val

\* the custom parser of TestSliceGeneric: the length of the string, never an error
lengthParser(s) == [val |-> IntLit(Len(s)), err |-> "nil"]

\* parser(val) for the parsers the package and its tests pass to Slice; a
\* parser is named by a string
Parser(parser, val) ==
    CASE parser = "strconv.Atoi" -> Atoi(val)
      [] parser = "ParseInt64" -> ParseInt(val, 64)
      [] parser = "ParseFloat64" -> ParseFloat(val)
      [] parser = "parseBool" -> parseBool(val)
      [] parser = "lengthParser" -> lengthParser(val)

\* a variant of Slice that takes the default for an empty value, as the scalar
\* extractors do
SliceEmptyAsDefault(req, key, defaultValue, parser) ==
    LET vals == MapIndex(Query(req.URL), key)
    IN  IF len(vals) = 0 THEN EmptySlice
        ELSE MakeSlice([i \in 1..len(vals) |->
                           IF vals.elems[i] = EmptyString THEN defaultValue
                           ELSE sliceElem(Parser(parser, vals.elems[i]), defaultValue)])

Slice(req, key, defaultValue, parser) ==
    LET vals == MapIndex(Query(req.URL), key)
    IN  IF len(vals) = 0 THEN EmptySlice
        ELSE MakeSlice([i \in 1..len(vals) |->
                            sliceElem(Parser(parser, vals.elems[i]), defaultValue)])

\* a variant of Ints with a loop of its own that leaves out what does not parse
IntsSkipping(req, key, defaultValue) ==
    LET vals == MapIndex(Query(req.URL), key)
        good == SelectSeq(vals.elems, LAMBDA v : Atoi(v).err = "nil")
    IN  MakeSlice([i \in 1..Len(good) |-> Atoi(good[i]).val])

Ints(req, key, defaultValue) == Slice(req, key, defaultValue, "strconv.Atoi")

Int64s(req, key, defaultValue) == Slice(req, key, defaultValue, "ParseInt64")

Float64s(req, key, defaultValue) == Slice(req, key, defaultValue, "ParseFloat64")

\* a variant of Bools with the vocabulary of strconv.ParseBool
BoolsStrconv(req, key, defaultValue) ==
    LET vals == MapIndex(Query(req.URL), key)
    IN  IF len(vals) = 0 THEN EmptySlice
        ELSE MakeSlice([i \in 1..len(vals) |->
                           sliceElem(parseBoolStrconv(vals.elems[i]), defaultValue)])

Bools(req, key, defaultValue) == Slice(req, key, defaultValue, "parseBool")

(***************************************************************************)
(* First and All.  A call that can index a slice returns an outcome        *)
(* [panic, val]: indexing outside 0..len-1 panics.                         *)
(***************************************************************************)
Return(v) == [panic |-> FALSE, val |-> v]

\* slice[i] of Go (i counts from 0)
index(slice, i, zero) ==
    IF i < len(slice) THEN Return(slice.elems[i + 1]) ELSE [panic |-> TRUE, val |-> zero]

\* a variant of First that returns the last element
FirstLast(slice, defaultValue) ==
    IF len(slice) = 0 THEN Return(defaultValue)
    ELSE index(slice, len(slice) - 1, defaultValue)

\* a variant of First that takes the element of a sequence of one only
FirstOfSingle(slice, defaultValue) ==
    IF len(slice) # 1 THEN Return(defaultValue) ELSE index(slice, 0, defaultValue)

\* a variant of First without the length check
FirstUnguarded(slice, defaultValue) == index(slice, 0, defaultValue)

First(slice, defaultValue) ==
    IF len(slice) = 0 THEN Return(defaultValue) ELSE index(slice, 0, defaultValue)

\* a variant of All that keeps the first value of every key only
AllFirstValues(req) ==
    LET values == Query(req.URL)
    IN  [k \in DOMAIN values |-> MakeSlice(<<values[k][1]>>)]

All(req) ==
    LET values == Query(req.URL)
    IN  [k \in DOMAIN values |-> MakeSlice(values[k])]

(***************************************************************************)
(* Storage.  A slice or map a call returns lives either in memory the call *)
(* allocated ("call": nothing else refers to it once the call has          *)
(* returned) or in memory that belongs to the request ("request").         *)
(***************************************************************************)
\* a variant of Query that hands out a map the URL keeps
QueryStorageCached(u) == "request"

\* (*URL).Query parses RawQuery into a new Values map with new slices on every call
QueryStorage(u) == "call"

\* a variant of StringsStorage for a Strings that returns the slice of a map the
\* request keeps (r.Form)
StringsStorageForm(req, key) ==
    IF MapIndex(Query(req.URL), key).isNil THEN "call" ELSE "request"

\* Strings returns []string{} or the slice of the map Query returned
StringsStorage(req, key) ==
    IF MapIndex(Query(req.URL), key).isNil THEN "call" ELSE QueryStorage(req.URL)

\* Slice returns []T{} or make([]T, len(vals))
SliceStorage(req, key) == "call"

\* All makes a new map and stores in it the slices of the map Query returned
AllStorage(req) == [map |-> "call", elems |-> QueryStorage(req.URL)]

(***************************************************************************)
(* The handler: inputs, and the record of its last call.                   *)
(***************************************************************************)
SeqsUpTo(S, n) == UNION {[1..k -> S] : k \in 0..n}

Field(key, value) == key \o <<"=">> \o value

LookupKeys == {<<"i", "d">>, <<"I", "D">>, <<"t">>}

StringDefaults == {EmptyString, <<"d", "e", "f">>}

IntDefaults == {IntLit(0), NegLit(1)}

FloatDefaults == {FloatZero(FALSE), FloatLit(TRUE, <<1>>, SNat(1))}

BoolDefaults == {TRUE, FALSE}

ParserNames == {"strconv.Atoi", "ParseInt64", "ParseFloat64", "parseBool", "lengthParser"}

ParserType(p) ==
    CASE p = "strconv.Atoi" -> "int"
      [] p = "ParseInt64" -> "int64"
      [] p = "ParseFloat64" -> "float64"
      [] p = "parseBool" -> "bool"
      [] p = "lengthParser" -> "int"

DefaultsOf(typ) ==
    CASE typ = "string" -> StringDefaults
      [] typ \in {"int", "int64"} -> IntDefaults
      [] typ = "float64" -> FloatDefaults
      [] typ = "bool" -> BoolDefaults

\* the goroutines that call into the package with the same request
Callers == {"g1", "g2"}

NoCall == [op |-> "none", key |-> <<>>, def |-> FALSE, parser |-> "", typ |-> "none",
           arg |-> NilSlice, val |-> FALSE, panic |-> FALSE, calls |-> <<>>,
           storage |-> [map |-> "none", elems |-> "none"], of |-> "none"]

Scalar(op, key, def, typ, val) ==
    [NoCall EXCEPT !.op = op, !.key = key, !.def = def, !.typ = typ, !.val = val]

Sequence(op, key, def, parser, typ, val, storage) ==
    [NoCall EXCEPT !.op = op, !.key = key, !.def = def, !.parser = parser, !.typ = typ,
                   !.val = val, !.storage = [map |-> "none", elems |-> storage]]

SliceOps == {"Strings", "Slice", "Ints", "Int64s", "Float64s", "Bools"}

CallOps == {"String", "Int", "Int64", "Float64", "Bool", "Has", "Count", "IsMultiple",
            "All", "First"} \cup SliceOps

Idle == ret.op = "none"

\* the decoded key of a field that parseQuery records, [ok, key]
FieldKey(field) ==
    LET kv    == Cut(field, "=")
        key   == QueryUnescape(kv.before)
        value == QueryUnescape(kv.after)
    IN  [ok  |-> ~Contains(field, ";") /\ field # <<>> /\ key.err = "nil" /\ value.err = "nil",
         key |-> key.val]

\* the request's i-th value (from 1) of key overwritten by w
RECURSIVE OverwriteField(_, _, _, _)
OverwriteField(query, key, i, w) ==
    IF query = <<>> THEN <<>>
    ELSE LET fk == FieldKey(Head(query))
         IN  IF fk.ok /\ fk.key = key
             THEN IF i = 1 THEN <<Field(key, w)>> \o Tail(query)
                  ELSE <<Head(query)>> \o OverwriteField(Tail(query), key, i - 1, w)
             ELSE <<Head(query)>> \o OverwriteField(Tail(query), key, i, w)

\* the request without the fields of key
RemoveFields(query, key) ==
    SelectSeq(query, LAMBDA field : ~(FieldKey(field).ok /\ FieldKey(field).key = key))

WrittenString == <<"w">>

NewKey == <<"n", "e", "w">>

(***************************************************************************)
(* One action per function of the package.                                 *)
(***************************************************************************)
CallString ==
    /\ Idle
    /\ \E key \in LookupKeys, d \in StringDefaults :
           ret' = Scalar("String", key, d, "string", String(r, key, d))
    /\ UNCHANGED <<r, r0, intSize, callers>>

CallInt ==
    /\ Idle
    /\ \E key \in LookupKeys, d \in IntDefaults :
           ret' = Scalar("Int", key, d, "int", Int(r, key, d))
    /\ UNCHANGED <<r, r0, intSize, callers>>

CallInt64 ==
    /\ Idle
    /\ \E key \in LookupKeys, d \in IntDefaults :
           ret' = Scalar("Int64", key, d, "int64", Int64(r, key, d))
    /\ UNCHANGED <<r, r0, intSize, callers>>

CallFloat64 ==
    /\ Idle
    /\ \E key \in LookupKeys, d \in FloatDefaults :
           ret' = Scalar("Float64", key, d, "float64", Float64(r, key, d))
    /\ UNCHANGED <<r, r0, intSize, callers>>

CallBool ==
    /\ Idle
    /\ \E key \in LookupKeys, d \in BoolDefaults :
           ret' = [Scalar("Bool", key, d, "bool", Bool(r, key, d))
                      EXCEPT !.calls = BoolCalls(r, key, d)]
    /\ UNCHANGED <<r, r0, intSize, callers>>

\* a variant of CallStrings that takes the values it returns out of the request
CallStringsConsuming ==
    /\ Idle
    /\ \E key \in LookupKeys :
           /\ ret' = Sequence("Strings", key, FALSE, "", "string", Strings(r, key),
                              StringsStorage(r, key))
           /\ r' = [r EXCEPT !.URL.RawQuery = RemoveFields(@, key)]
    /\ UNCHANGED <<r0, intSize, callers>>

CallStrings ==
    /\ Idle
    /\ \E key \in LookupKeys :
           ret' = Sequence("Strings", key, FALSE, "", "string", Strings(r, key),
                           StringsStorage(r, key))
    /\ UNCHANGED <<r, r0, intSize, callers>>

CallSlice ==
    /\ Idle
    /\ \E key \in LookupKeys, p \in ParserNames :
           \E d \in DefaultsOf(ParserType(p)) :
               ret' = Sequence("Slice", key, d, p, ParserType(p), Slice(r, key, d, p),
                               SliceStorage(r, key))
    /\ UNCHANGED <<r, r0, intSize, callers>>

CallInts ==
    /\ Idle
    /\ \E key \in LookupKeys, d \in IntDefaults :
           ret' = Sequence("Ints", key, d, "", "int", Ints(r, key, d), SliceStorage(r, key))
    /\ UNCHANGED <<r, r0, intSize, callers>>

CallInt64s ==
    /\ Idle
    /\ \E key \in LookupKeys, d \in IntDefaults :
           ret' = Sequence("Int64s", key, d, "", "int64", Int64s(r, key, d), SliceStorage(r, key))
    /\ UNCHANGED <<r, r0, intSize, callers>>

CallFloat64s ==
    /\ Idle
    /\ \E key \in LookupKeys, d \in FloatDefaults :
           ret' = Sequence("Float64s", key, d, "", "float64", Float64s(r, key, d),
                           SliceStorage(r, key))
    /\ UNCHANGED <<r, r0, intSize, callers>>

CallBools ==
    /\ Idle
    /\ \E key \in LookupKeys, d \in BoolDefaults :
           ret' = Sequence("Bools", key, d, "", "bool", Bools(r, key, d), SliceStorage(r, key))
    /\ UNCHANGED <<r, r0, intSize, callers>>

CallHas ==
    /\ Idle
    /\ \E key \in LookupKeys : ret' = Scalar("Has", key, FALSE, "bool", Has(r, key))
    /\ UNCHANGED <<r, r0, intSize, callers>>

CallCount ==
    /\ Idle
    /\ \E key \in LookupKeys : ret' = Scalar("Count", key, FALSE, "int", Count(r, key))
    /\ UNCHANGED <<r, r0, intSize, callers>>

CallIsMultiple ==
    /\ Idle
    /\ \E key \in LookupKeys : ret' = Scalar("IsMultiple", key, FALSE, "bool", IsMultiple(r, key))
    /\ UNCHANGED <<r, r0, intSize, callers>>

CallAll ==
    /\ Idle
    /\ ret' = [NoCall EXCEPT !.op = "All", !.typ = "map", !.val = All(r),
                             !.storage = AllStorage(r)]
    /\ UNCHANGED <<r, r0, intSize, callers>>

\* First on the slice the last call returned, or on a nil slice
CallFirst ==
    /\ \/ ret.op \in SliceOps
       \/ Idle
    /\ \E d \in (IF Idle THEN IntDefaults ELSE DefaultsOf(ret.typ)) :
           LET slice == IF Idle THEN NilSlice ELSE ret.val
               out   == First(slice, d)
           IN  ret' = [NoCall EXCEPT !.op = "First", !.def = d, !.arg = slice,
                                     !.typ = IF Idle THEN "int" ELSE ret.typ,
                                     !.val = out.val, !.panic = out.panic]
    /\ UNCHANGED <<r, r0, intSize, callers>>

(***************************************************************************)
(* The handler writes to a slice or map it was given.  A write lands in    *)
(* the request's data only when the storage written belongs to the         *)
(* request.                                                                *)
(***************************************************************************)
\* the handler overwrites or appends an element of the slice it was given
MutateSlice ==
    /\ ret.op \in SliceOps
    /\ LET w == IF ret.op = "Strings" THEN WrittenString ELSE ret.def
       IN  \/ \E i \in 1..len(ret.val) :
                  /\ ret' = [ret EXCEPT !.op = "mutated", !.of = ret.op, !.val.elems[i] = w]
                  /\ r' = IF ret.storage.elems = "request"
                          THEN [r EXCEPT !.URL.RawQuery = OverwriteField(@, ret.key, i, w)]
                          ELSE r
           \/ /\ ret' = [ret EXCEPT !.op = "mutated", !.of = ret.op,
                                    !.val = MakeSlice(Append(ret.val.elems, w))]
              /\ r' = r
    /\ UNCHANGED <<r0, intSize, callers>>

\* the handler changes the map All returned: it overwrites or appends an
\* element of one value, or deletes, replaces or adds a key
MutateMap ==
    /\ ret.op = "All"
    /\ \/ \E k \in DOMAIN ret.val : \E i \in 1..len(ret.val[k]) :
              /\ ret' = [ret EXCEPT !.op = "mutated", !.of = "All",
                                    !.val[k].elems[i] = WrittenString]
              /\ r' = IF ret.storage.elems = "request"
                      THEN [r EXCEPT !.URL.RawQuery = OverwriteField(@, k, i, WrittenString)]
                      ELSE r
       \/ \E k \in DOMAIN ret.val :
              /\ ret' = [ret EXCEPT !.op = "mutated", !.of = "All",
                                    !.val[k] = MakeSlice(Append(@.elems, WrittenString))]
              /\ r' = r
       \/ \E k \in DOMAIN ret.val :
              /\ ret' = [ret EXCEPT !.op = "mutated", !.of = "All",
                                    !.val = [j \in DOMAIN ret.val \ {k} |-> ret.val[j]]]
              /\ r' = IF ret.storage.map = "request"
                      THEN [r EXCEPT !.URL.RawQuery = RemoveFields(@, k)]
                      ELSE r
       \/ \E k \in DOMAIN ret.val \cup {NewKey} :
              /\ ret' = [ret EXCEPT !.op = "mutated", !.of = "All",
                                    !.val = [j \in DOMAIN ret.val \cup {k} |->
                                                IF j = k THEN MakeSlice(<<WrittenString>>)
                                                ELSE ret.val[j]]]
              /\ r' = IF ret.storage.map = "request"
                      THEN [r EXCEPT !.URL.RawQuery =
                                Append(RemoveFields(@, k), Field(k, WrittenString))]
                      ELSE r
    /\ UNCHANGED <<r0, intSize, callers>>

\* the handler is done with the last result and goes on
Discard ==
    /\ ~Idle
    /\ ret' = NoCall
    /\ UNCHANGED <<r, r0, intSize, callers>>

(***************************************************************************)
(* Requests.                                                               *)
(***************************************************************************)
\* raw (still escaped) values of a field
GeneralValues ==
    { <<>>, <<"1">>, <<"-", "5">>, <<"a", "b", "c">>, <<"+", "t", "r", "u", "e", "+">>,
      <<"1", ".", "5">> }

GeneralFields ==
    {Field(<<"i", "d">>, v) : v \in GeneralValues}
        \cup {Field(<<"t">>, <<>>), Field(<<"t">>, <<"g", "o">>), <<"t">>, <<"I", "D", "=", "7">>}

\* query strings of the package's documentation and tests
Scenarios ==
    { << <<"p", "a", "g", "e", "=", "2">>, <<"l", "i", "m", "i", "t", "=", "5", "0">>,
         <<"a", "c", "t", "i", "v", "e", "=", "t", "r", "u", "e">>,
         <<"s", "o", "r", "t", "=", "p", "r", "i", "c", "e">> >>,
      << <<"i", "d", "=", "1">>, <<"i", "d", "=", "2">>,
         <<"i", "d", "=", "i", "n", "v", "a", "l", "i", "d">>, <<"i", "d", "=", "5">> >>,
      << <<"t", "=">>, <<"t", "=">> >>,
      << <<"t", "=", "g", "o">>, <<"t", "=">>, <<"t", "=", "r", "u", "s", "t">> >>,
      << <<"i", "d", "=", "1">>, <<>>, <<"i", "d", ";", "x">>, <<"i", "d", "=", "%", "z", "z">>,
         <<"=", "v">>, <<"i", "d", "=", "%", "0", "0">> >> }

Requests(queries) == {[URL |-> [RawQuery |-> q]] : q \in queries}

InitWith(queries) ==
    /\ r \in Requests(queries)
    /\ r0 = r
    /\ intSize \in {32, 64}
    /\ ret = NoCall
    /\ callers = [c \in Callers |-> [pc |-> "idle", call |-> NoCall, read |-> r.URL,
                                     overlapped |-> FALSE]]

Init == InitWith(SeqsUpTo(GeneralFields, MaxParams) \cup Scenarios)

\* the first field is one of firsts, the others are among rest
QueriesWithFirst(firsts, rest) ==
    {<<f>> \o tail : f \in firsts, tail \in SeqsUpTo(rest, MaxParams - 1)}

\* fields that follow the first one: a second value of the same key, another key
TailFields == {Field(<<"i", "d">>, <<"1">>), Field(<<"t">>, <<"g", "o">>)}

ToUpperRune(c) ==
    IF IndexOf(LowerLetters, c) # 0 THEN UpperLetters[IndexOf(LowerLetters, c)] ELSE c

ToUpper(s) == [i \in 1..Len(s) |-> ToUpperRune(s[i])]

Capitalized(s) == [i \in 1..Len(s) |-> IF i = 1 THEN ToUpperRune(s[i]) ELSE s[i]]

\* the words of the boolean tests, written in lower case, in capitals and
\* capitalised, bare or between an escaped space and an escaped tab
BoolWords ==
    { <<"t", "r", "u", "e">>, <<"1">>, <<"y", "e", "s">>, <<"o", "n">>, <<"y">>,
      <<"f", "a", "l", "s", "e">>, <<"0">>, <<"n", "o">>, <<"o", "f", "f">>, <<"n">> }

OtherWords ==
    { <<>>, <<"m", "a", "y", "b", "e">>, <<"t">>, <<"f">>, <<"2">>, <<"t", "r", "u">>,
      <<"y", "e", "s", "s">>, <<"o", "n", "+", "o", "n">>, <<"-", "1">>, <<"e", "n", "a", "b", "l", "e", "d">>,
      <<"%", "0", "0">>, <<"KELVIN">> }

Padded(words) ==
    UNION {{w, <<"+">> \o w, w \o <<"%", "0", "9">>, <<"+">> \o w \o <<"%", "0", "9">>} : w \in words}

BoolValues ==
    Padded(BoolWords \cup {ToUpper(w) : w \in BoolWords} \cup {Capitalized(w) : w \in BoolWords}
           \cup OtherWords)

InitBool == InitWith(QueriesWithFirst({Field(<<"i", "d">>, v) : v \in BoolValues}, TailFields)
                     \cup {<<>>})

\* numeric strings of the tests and strings around the limits of the types
NumericValues ==
    { <<"0">>, <<"-", "0">>, <<"%", "2", "B", "7">>, <<"0", "0", "7">>, <<"4", "2">>, <<"-", "5">>,
      <<"9", "9", "9", "9", "9", "9">>, <<"a", "b", "c">>, <<>>, <<"-">>, <<"1", "2", "a">>,
      <<"+", "1">>, <<"1", "_", "0", "0", "0">>, <<"0", "x", "1", "F">>,
      <<"2", "1", "4", "7", "4", "8", "3", "6", "4", "7">>,
      <<"2", "1", "4", "7", "4", "8", "3", "6", "4", "8">>,
      <<"-", "2", "1", "4", "7", "4", "8", "3", "6", "4", "8">>,
      <<"-", "2", "1", "4", "7", "4", "8", "3", "6", "4", "9">>,
      <<"-", "9", "9", "9", "9", "9", "9", "9", "9", "9", "9">>,
      <<"9", "2", "2", "3", "3", "7", "2", "0", "3", "6", "8", "5", "4", "7", "7", "5", "8", "0", "7">>,
      <<"9", "2", "2", "3", "3", "7", "2", "0", "3", "6", "8", "5", "4", "7", "7", "5", "8", "0", "8">>,
      <<"-", "9", "2", "2", "3", "3", "7", "2", "0", "3", "6", "8", "5", "4", "7", "7", "5", "8", "0", "8">>,
      <<"-", "9", "2", "2", "3", "3", "7", "2", "0", "3", "6", "8", "5", "4", "7", "7", "5", "8", "0", "9">>,
      <<"1", "8", "4", "4", "6", "7", "4", "4", "0", "7", "3", "7", "0", "9", "5", "5", "1", "6", "1", "6">>,
      <<"1", "9", ".", "9", "9">>, <<"2", "0">>, <<"1", ".", "2", "3", "e", "-", "4">>,
      <<"-", "1", "5", ".", "5">>, <<"5", ".", "6", "7", "e", "2">>, <<".", "5">>, <<"5", ".">>,
      <<".">>, <<"1", "E", "5">>, <<"1", "e">>, <<"1", ".", "2", ".", "3">>,
      <<"1", "e", "4", "0", "0">>, <<"-", "1", "e", "4", "0", "0">>, <<"1", "e", "-", "4", "0", "0">>,
      <<"i", "n", "f">>, <<"-", "I", "n", "f", "i", "n", "i", "t", "y">>, <<"i", "n", "f", "i">>,
      <<"N", "a", "N">>, <<"0", "x", "1", "p", "-", "2">>, <<"0", "x", "1">>,
      <<"1", "_", "0", ".", "5">>, <<"%", "0", "0", "1">>, <<"%", "F", "F">> }

InitNum == InitWith(QueriesWithFirst({Field(<<"i", "d">>, v) : v \in NumericValues}, TailFields)
                    \cup {<<>>})

\* fields of a request whose map a handler takes with All: one or two keys,
\* keys with several values, a key in another case
MapFields ==
    { Field(<<"i", "d">>, <<"1">>), Field(<<"i", "d">>, <<"a", "b", "c">>), Field(<<"t">>, <<>>),
      Field(<<"t">>, <<"g", "o">>), Field(<<"I", "D">>, <<"7">>) }

InitAll == InitWith(SeqsUpTo(MapFields, MaxParams) \cup Scenarios)

Next ==
    \/ CallString
    \/ CallInt
    \/ CallInt64
    \/ CallFloat64
    \/ CallBool
    \/ CallStrings
    \/ CallSlice
    \/ CallInts
    \/ CallInt64s
    \/ CallFloat64s
    \/ CallBools
    \/ CallHas
    \/ CallCount
    \/ CallIsMultiple
    \/ CallAll
    \/ CallFirst
    \/ MutateSlice
    \/ MutateMap
    \/ Discard

Spec == Init /\ [][Next]_vars

SpecBool == InitBool /\ [][Next]_vars

SpecNum == InitNum /\ [][Next]_vars

SpecAll == InitAll /\ [][Next]_vars

(***************************************************************************)
(* What the claims speak of: the query multi-map of the request, and the   *)
(* values recorded for a key.                                              *)
(***************************************************************************)
MultiMap == Query(r.URL)

Present(key) == key \in DOMAIN MultiMap

FirstValue(key) == MultiMap[key][1]

\* the decoded value of a field
FieldValue(field) == QueryUnescape(Cut(field, "=").after).val

\* the values of the fields of key, in the order of the query string
Recorded(key) ==
    LET fields == SelectSeq(r.URL.RawQuery,
                            LAMBDA field : FieldKey(field).ok /\ FieldKey(field).key = key)
    IN  [i \in 1..Len(fields) |-> FieldValue(fields[i])]

\* what the scalar extractor op parses the first value with
ScalarParse(op, s) ==
    CASE op = "Int" -> Atoi(s)
      [] op = "Int64" -> ParseInt(s, 64)
      [] op = "Float64" -> ParseFloat(s)
      [] op = "Bool" -> parseBool(s)

NumericScalars == {"Int", "Int64", "Float64"}

(***************************************************************************)
(* C1: Int, Int64 and Float64 return the default when the key is absent,   *)
(* when its first value is empty or when that value fails to parse, and    *)
(* the parsed first value otherwise.                                       *)
(***************************************************************************)
C1_NumericScalar ==
    ret.op \in NumericScalars =>
        IF ~Present(ret.key) THEN ret.val = ret.def
        ELSE IF FirstValue(ret.key) = EmptyString THEN ret.val = ret.def
        ELSE IF ScalarParse(ret.op, FirstValue(ret.key)).err # "nil" THEN ret.val = ret.def
        ELSE ret.val = ScalarParse(ret.op, FirstValue(ret.key)).val

\* a numeric extractor has returned the default for a first value that is
\* there, not empty, and does not parse
C1_Witness ==
    /\ ret.op \in NumericScalars
    /\ Present(ret.key)
    /\ FirstValue(ret.key) # EmptyString
    /\ ScalarParse(ret.op, FirstValue(ret.key)).err # "nil"
    /\ ret.val = ret.def

(***************************************************************************)
(* C2: Slice returns as many elements as there are raw values for the key  *)
(* (Count of the key); element i is the parser's value for the i-th raw    *)
(* value when the parser succeeds and the default when it fails.           *)
(***************************************************************************)
C2_SlicePositional ==
    ret.op = "Slice" =>
        /\ len(ret.val) = Count(r, ret.key)
        /\ len(ret.val) = Len(Recorded(ret.key))
        /\ \A i \in 1..Len(Recorded(ret.key)) :
               LET parsed == Parser(ret.parser, Recorded(ret.key)[i])
               IN  ret.val.elems[i] = IF parsed.err = "nil" THEN parsed.val ELSE ret.def

\* Slice has returned a sequence with a default after a parsed value that is
\* not the default
C2_Witness ==
    /\ ret.op = "Slice"
    /\ \E i, j \in 1..len(ret.val) :
           /\ i < j
           /\ Parser(ret.parser, Recorded(ret.key)[i]).err = "nil"
           /\ ret.val.elems[i] # ret.def
           /\ Parser(ret.parser, Recorded(ret.key)[j]).err # "nil"
           /\ ret.val.elems[j] = ret.def

(***************************************************************************)
(* C3: for a key absent from the multi-map every scalar extractor returns  *)
(* the default, Strings and every sequence extractor return an empty       *)
(* non-nil sequence, Has and IsMultiple return false and Count returns 0.  *)
(***************************************************************************)
C3_AbsentKey ==
    (ret.op \in CallOps \ {"All", "First"} /\ ~Present(ret.key)) =>
        CASE ret.op \in {"String", "Int", "Int64", "Float64", "Bool"} -> ret.val = ret.def
          [] ret.op \in SliceOps -> ret.val = EmptySlice /\ ~ret.val.isNil
          [] ret.op \in {"Has", "IsMultiple"} -> ret.val = FALSE
          [] ret.op = "Count" -> ret.val = 0

\* Strings has returned for an absent key
C3_Witness ==
    /\ ret.op = "Strings"
    /\ ~Present(ret.key)
    /\ r.URL.RawQuery # <<>>
    /\ len(ret.val) = 0

(***************************************************************************)
(* C4: String returns the first value of the key when that value is not    *)
(* empty and the default otherwise; it returns the empty string only when  *)
(* the default is the empty string.                                        *)
(***************************************************************************)
C4_String ==
    ret.op = "String" =>
        /\ ret.val = IF Present(ret.key) /\ FirstValue(ret.key) # EmptyString
                     THEN FirstValue(ret.key)
                     ELSE ret.def
        /\ (ret.val = EmptyString => ret.def = EmptyString)

\* String has returned a non-empty default for a key whose first value is empty
C4_Witness ==
    /\ ret.op = "String"
    /\ Present(ret.key)
    /\ FirstValue(ret.key) = EmptyString
    /\ ret.def # EmptyString
    /\ ret.val = ret.def

(***************************************************************************)
(* C5: when the first value, trimmed of white space and in lower case, is  *)
(* one of true, 1, yes, on, y, Bool returns true, and when it is one of    *)
(* false, 0, no, off, n, Bool returns false, whatever the default.         *)
(***************************************************************************)
TrueWords == {<<"t", "r", "u", "e">>, <<"1">>, <<"y", "e", "s">>, <<"o", "n">>, <<"y">>}

FalseWords == {<<"f", "a", "l", "s", "e">>, <<"0">>, <<"n", "o">>, <<"o", "f", "f">>, <<"n">>}

Folded(s) == ToLower(TrimSpace(s))

C5_BoolVocabulary ==
    (ret.op = "Bool" /\ Present(ret.key)) =>
        /\ Folded(FirstValue(ret.key)) \in TrueWords => ret.val = TRUE
        /\ Folded(FirstValue(ret.key)) \in FalseWords => ret.val = FALSE

\* Bool has returned false, against a default of true, for a word written
\* in capitals between white space
C5_Witness ==
    /\ ret.op = "Bool"
    /\ Present(ret.key)
    /\ Folded(FirstValue(ret.key)) \in FalseWords
    /\ TrimSpace(FirstValue(ret.key)) # FirstValue(ret.key)
    /\ ToLower(FirstValue(ret.key)) # FirstValue(ret.key)
    /\ ret.def = TRUE
    /\ ret.val = FALSE

(***************************************************************************)
(* C6: for a first value that is not a word of the vocabulary after        *)
(* trimming and folding (the empty string and white space included), and   *)
(* for an absent key, Bool returns the default, be it true or false.       *)
(***************************************************************************)
C6_BoolDefault ==
    ret.op = "Bool" =>
        ((~Present(ret.key) \/ Folded(FirstValue(ret.key)) \notin TrueWords \cup FalseWords)
            => ret.val = ret.def)

\* Bool has returned the default true for a first value that is not empty
\* and not in the vocabulary
C6_Witness ==
    /\ ret.op = "Bool"
    /\ Present(ret.key)
    /\ FirstValue(ret.key) # EmptyString
    /\ Folded(FirstValue(ret.key)) \notin TrueWords \cup FalseWords
    /\ ret.def = TRUE
    /\ ret.val = TRUE

(***************************************************************************)
(* C7: Strings returns the values recorded for the key as they are, in     *)
(* order, the empty ones included; for a key that is present the result    *)
(* has at least one element, for an absent key none.                       *)
(***************************************************************************)
C7_StringsVerbatim ==
    ret.op = "Strings" =>
        /\ ret.val.elems = Recorded(ret.key)
        /\ Present(ret.key) <=> len(ret.val) > 0

\* Strings has returned two empty strings
C7_Witness ==
    /\ ret.op = "Strings"
    /\ ret.val.elems = <<EmptyString, EmptyString>>

(***************************************************************************)
(* C8: after the caller has changed the map All returned (a key added,     *)
(* deleted or replaced, an element of a value overwritten or appended),    *)
(* every extraction, presence, cardinality and All call on the request     *)
(* returns what it returned before the change.                             *)
(***************************************************************************)
\* the result of every call on req
Results(req) ==
    [all   |-> All(req),
     byKey |-> [k \in LookupKeys |->
                   [has      |-> Has(req, k),
                    count    |-> Count(req, k),
                    multiple |-> IsMultiple(req, k),
                    strings  |-> Strings(req, k),
                    string   |-> [d \in StringDefaults |-> String(req, k, d)],
                    int      |-> [d \in IntDefaults |-> Int(req, k, d)],
                    int64    |-> [d \in IntDefaults |-> Int64(req, k, d)],
                    float64  |-> [d \in FloatDefaults |-> Float64(req, k, d)],
                    bool     |-> [d \in BoolDefaults |-> Bool(req, k, d)],
                    slice    |-> [p \in ParserNames |->
                                     [d \in DefaultsOf(ParserType(p)) |-> Slice(req, k, d, p)]]]]]

C8_AllDecoupled ==
    (ret.op = "mutated" /\ ret.of = "All") => Results(r) = Results(r0)

\* the caller has overwritten an element of a value of the map All returned,
\* and All on the request still gives the value as it was
C8_Witness ==
    /\ ret.op = "mutated"
    /\ ret.of = "All"
    /\ \E k \in DOMAIN ret.val \cap DOMAIN All(r) :
           /\ len(ret.val[k]) = len(All(r)[k])
           /\ ret.val[k] # All(r)[k]
    /\ All(r) = All(r0)

(***************************************************************************)
(* C9: every call returns, without a panic, a value of its result type,    *)
(* whatever the values of the query string: empty, malformed, out of the   *)
(* range of the number type, with a NUL byte or a byte that is not UTF-8.  *)
(***************************************************************************)
IsString(v) == DOMAIN v = 1..Len(v)

IsInt(v, bits) ==
    /\ v.neg \in BOOLEAN
    /\ v.mag = Norm(v.mag)
    /\ ~MagLess(IF v.neg THEN SignCutoff(bits) ELSE SignCutoffLessOne(bits), v.mag)

IsFloat64(v) == v.kind \in {"finite", "inf", "nan"} /\ v.neg \in BOOLEAN

HasType(v, typ) ==
    CASE typ = "string" -> IsString(v)
      [] typ = "int" -> IsInt(v, intSize)
      [] typ = "int64" -> IsInt(v, 64)
      [] typ = "float64" -> IsFloat64(v)
      [] typ = "bool" -> v \in BOOLEAN

C9_Total ==
    ret.op \in CallOps =>
        /\ ~ret.panic
        /\ CASE ret.op \in {"Has", "IsMultiple"} -> ret.val \in BOOLEAN
             [] ret.op = "Count" -> ret.val \in Nat
             [] ret.op = "All" ->
                    \A k \in DOMAIN ret.val :
                        /\ ~ret.val[k].isNil
                        /\ \A i \in 1..len(ret.val[k]) : IsString(ret.val[k].elems[i])
             [] ret.op \in SliceOps ->
                    /\ ~ret.val.isNil
                    /\ \A i \in 1..len(ret.val) : HasType(ret.val.elems[i], ret.typ)
             [] OTHER -> HasType(ret.val, ret.typ)

\* First has returned an element of the sequence Int64s made of a query
\* string whose first value is a number out of the range of int64
C9_Witness ==
    /\ ret.op = "First"
    /\ ret.typ = "int64"
    /\ len(ret.arg) > 0
    /\ Present(<<"i", "d">>)
    /\ ParseInt(FirstValue(<<"i", "d">>), 64).err = "ErrRange"
    /\ ~ret.panic
    /\ ret.val = ret.arg.elems[1]

(***************************************************************************)
(* C10: no call changes the query string of the request: after any         *)
(* sequence of calls the multi-map is the one the request came with, and   *)
(* a call returns what the same call returns on the request as it came.    *)
(***************************************************************************)
\* the result of the call c on req
Exec(c, req) ==
    CASE c.op = "String" -> String(req, c.key, c.def)
      [] c.op = "Int" -> Int(req, c.key, c.def)
      [] c.op = "Int64" -> Int64(req, c.key, c.def)
      [] c.op = "Float64" -> Float64(req, c.key, c.def)
      [] c.op = "Bool" -> Bool(req, c.key, c.def)
      [] c.op = "Strings" -> Strings(req, c.key)
      [] c.op = "Slice" -> Slice(req, c.key, c.def, c.parser)
      [] c.op = "Ints" -> Ints(req, c.key, c.def)
      [] c.op = "Int64s" -> Int64s(req, c.key, c.def)
      [] c.op = "Float64s" -> Float64s(req, c.key, c.def)
      [] c.op = "Bools" -> Bools(req, c.key, c.def)
      [] c.op = "Has" -> Has(req, c.key)
      [] c.op = "Count" -> Count(req, c.key)
      [] c.op = "IsMultiple" -> IsMultiple(req, c.key)
      [] c.op = "All" -> All(req)
      [] c.op = "First" -> First(c.arg, c.def).val

C10_ReadOnly ==
    ret.op \in CallOps =>
        /\ r.URL.RawQuery = r0.URL.RawQuery
        /\ Query(r.URL) = Query(r0.URL)
        /\ ret.val = Exec(ret, r0)

\* a second call in a row (First on the values a sequence extractor made of
\* a key with several values) has found the request as it came
C10_Witness ==
    /\ ret.op = "First"
    /\ len(ret.arg) > 1
    /\ r = r0
    /\ \E k \in LookupKeys : len(Strings(r, k)) = len(ret.arg)

(***************************************************************************)
(* C11: Has is true exactly when a field of the query string has the key,  *)
(* letter for letter, be its value empty or the field without "=", and     *)
(* false otherwise; a key in another letter case does not count.           *)
(***************************************************************************)
C11_Has ==
    ret.op = "Has" =>
        ret.val = (\E i \in 1..Len(r.URL.RawQuery) :
                       /\ FieldKey(r.URL.RawQuery[i]).ok
                       /\ FieldKey(r.URL.RawQuery[i]).key = ret.key)

\* Has has returned true for a key that occurs without "=" and has no value
\* that is not empty, in a request where it returns false for another key
C11_Witness ==
    /\ ret.op = "Has"
    /\ ret.val = TRUE
    /\ \E i \in 1..Len(r.URL.RawQuery) : r.URL.RawQuery[i] = ret.key
    /\ \A i \in 1..Len(Recorded(ret.key)) : Recorded(ret.key)[i] = EmptyString
    /\ \E k \in LookupKeys : ~Has(r, k)

(***************************************************************************)
(* C12: Count is the number of values recorded for the key, the empty ones *)
(* counted, and 0 when the key is absent.                                  *)
(***************************************************************************)
C12_Count ==
    ret.op = "Count" =>
        /\ ret.val = Len(Recorded(ret.key))
        /\ ~Present(ret.key) => ret.val = 0

\* Count has counted two values of which one is empty
C12_Witness ==
    /\ ret.op = "Count"
    /\ ret.val = 2
    /\ \E i, j \in 1..2 : Recorded(ret.key)[i] = EmptyString /\ Recorded(ret.key)[j] # EmptyString

(***************************************************************************)
(* C13: IsMultiple is true if and only if Count of the key is more than 1; *)
(* it is false for an absent key and for a key with one value.             *)
(***************************************************************************)
C13_IsMultiple ==
    ret.op = "IsMultiple" =>
        /\ ret.val = (Count(r, ret.key) > 1)
        /\ Len(Recorded(ret.key)) <= 1 => ret.val = FALSE

\* IsMultiple has returned false for a key with one value
C13_Witness ==
    /\ ret.op = "IsMultiple"
    /\ Len(Recorded(ret.key)) = 1
    /\ ret.val = FALSE

(***************************************************************************)
(* C14: First returns the default for a sequence of length zero, nil or    *)
(* not, and element 0 of any longer sequence.                              *)
(***************************************************************************)
C14_First ==
    ret.op = "First" =>
        ret.val = IF len(ret.arg) = 0 THEN ret.def ELSE ret.arg.elems[1]

\* First has returned element 0, which is not the default, of a sequence of
\* more than one element
C14_Witness ==
    /\ ret.op = "First"
    /\ len(ret.arg) > 1
    /\ ret.val = ret.arg.elems[1]
    /\ ret.val # ret.def

(***************************************************************************)
(* C15: when the first value is the decimal representation of an integer n *)
(* in the range of the type, Int and Int64 return n, whatever the default; *)
(* zero and negative n included.                                           *)
(***************************************************************************)
\* s without its sign
Unsigned(s) == IF s # <<>> /\ Head(s) \in {"+", "-"} THEN Tail(s) ELSE s

\* an optional sign and one or more decimal digits
IsDecimalInteger(s) ==
    /\ Unsigned(s) # <<>>
    /\ \A i \in 1..Len(Unsigned(s)) : IsDigit(Unsigned(s)[i])

\* the integer the decimal integer s denotes
DecimalValue(s) ==
    LET mag == Norm([i \in 1..Len(Unsigned(s)) |-> DigitVal(Unsigned(s)[i])])
    IN  [neg |-> Head(s) = "-" /\ mag # <<0>>, mag |-> mag]

\* the decimal representation of n (strconv.Itoa)
DecimalOf(n) ==
    (IF n.neg THEN <<"-">> ELSE <<>>) \o [i \in 1..Len(n.mag) |-> Digits[n.mag[i] + 1]]

BitsOf(op) == IF op = "Int" THEN intSize ELSE 64

C15_IntRoundTrip ==
    (ret.op \in {"Int", "Int64"} /\ Present(ret.key)) =>
        LET s == FirstValue(ret.key)
        IN  (IsDecimalInteger(s) /\ DecimalOf(DecimalValue(s)) = s
                 /\ IsInt(DecimalValue(s), BitsOf(ret.op)))
                => ret.val = DecimalValue(s)

\* Int or Int64 has returned the least number of its type, or zero against
\* another default
C15_Witness ==
    /\ ret.op \in {"Int", "Int64"}
    /\ Present(ret.key)
    /\ FirstValue(ret.key) = DecimalOf(ret.val)
    /\ ret.val # ret.def
    /\ \/ ret.val = [neg |-> TRUE, mag |-> SignCutoff(BitsOf(ret.op))]
       \/ ret.val = IntLit(0)

(***************************************************************************)
(* C16: when the first value is a decimal integer out of the range of the  *)
(* type, Int and Int64 return the default: not the value modulo 2^w, not   *)
(* the bound of the range.                                                 *)
(***************************************************************************)
C16_OutOfRange ==
    (ret.op \in {"Int", "Int64"} /\ Present(ret.key)) =>
        LET s == FirstValue(ret.key)
        IN  (IsDecimalInteger(s) /\ ~IsInt(DecimalValue(s), BitsOf(ret.op)))
                => ret.val = ret.def

\* Int64 has returned the default for 2^63
C16_Witness ==
    /\ ret.op = "Int64"
    /\ Present(ret.key)
    /\ IsDecimalInteger(FirstValue(ret.key))
    /\ DecimalValue(FirstValue(ret.key)) = [neg |-> FALSE, mag |-> SignCutoff(64)]
    /\ ret.val = ret.def

(***************************************************************************)
(* C17: Int, Int64 and Float64 parse the first value as a decimal literal  *)
(* only (an optional sign and digits; for Float64 also a fraction and an   *)
(* exponent): any other first value gives the default.  This is the claim  *)
(* as it was made; Float64 does not keep to it.                            *)
(***************************************************************************)
DecDigits == {Digits[i] : i \in 1..Len(Digits)}

HexChars == DecDigits \cup {"a", "b", "c", "d", "e", "f", "A", "B", "C", "D", "E", "F"}

\* the index of the first character of s that is in chars, 0 when there is none
FirstIndexIn(s, chars) ==
    IF \E i \in 1..Len(s) : s[i] \in chars
    THEN CHOOSE i \in 1..Len(s) : s[i] \in chars /\ \A j \in 1..(i - 1) : s[j] \notin chars
    ELSE 0

\* digits with at most one point among them, and at least one digit
IsMantissa(m, digits) ==
    /\ \A i \in 1..Len(m) : m[i] \in digits \cup {"."}
    /\ Cardinality({i \in 1..Len(m) : m[i] = "."}) <= 1
    /\ \E i \in 1..Len(m) : m[i] \in digits

\* [sign] mantissa [(e|E) [sign] digits]
IsDecimalFloat(s) ==
    LET u == Unsigned(s)
        e == FirstIndexIn(u, {"e", "E"})
    IN  IF e = 0 THEN IsMantissa(u, DecDigits)
        ELSE IsMantissa(SubSeq(u, 1, e - 1), DecDigits) /\ IsDecimalInteger(SubSeq(u, e + 1, Len(u)))

IsDecimalLiteral(op, s) == IF op = "Float64" THEN IsDecimalFloat(s) ELSE IsDecimalInteger(s)

C17_DecimalOnly ==
    (ret.op \in NumericScalars /\ Present(ret.key)) =>
        (~IsDecimalLiteral(ret.op, FirstValue(ret.key)) => ret.val = ret.def)

(***************************************************************************)
(* C17, amended: Int and Int64 give the default for every first value that *)
(* is not an optional sign followed by decimal digits.  Float64 gives the  *)
(* default for every first value that is none of: a decimal literal        *)
(* (optional sign, digits with an optional point, optional exponent), the  *)
(* same with underscores between digits, a hexadecimal literal with a      *)
(* binary exponent (0x1.8p1), or one of the words inf, infinity (signed or *)
(* not) and nan in any letter case; for these words it returns an infinity *)
(* or a NaN, not the default.                                              *)
(***************************************************************************)
WithoutUnderscores(s) == SelectSeq(s, LAMBDA c : c # "_")

\* every underscore of u stands before a digit, and after a digit or, when
\* afterPrefix, after the two characters of a base prefix
UnderscoresBetweenDigits(u, digits, afterPrefix) ==
    \A i \in 1..Len(u) :
        u[i] = "_" =>
            /\ i > 1
            /\ i < Len(u)
            /\ u[i + 1] \in digits
            /\ u[i - 1] \in digits \/ (afterPrefix /\ i = 3)

IsUnderscoredDecimalFloat(s) ==
    /\ UnderscoresBetweenDigits(Unsigned(s), DecDigits, FALSE)
    /\ IsDecimalFloat(WithoutUnderscores(s))

\* [sign] 0x mantissa (p|P) [sign] digits
IsHexFloat(s) ==
    LET u == Unsigned(s)
    IN  /\ Len(u) > 2
        /\ u[1] = "0"
        /\ u[2] \in {"x", "X"}
        /\ UnderscoresBetweenDigits(u, HexChars, TRUE)
        /\ LET b == WithoutUnderscores(SubSeq(u, 3, Len(u)))
               p == FirstIndexIn(b, {"p", "P"})
           IN  /\ p # 0
               /\ IsMantissa(SubSeq(b, 1, p - 1), HexChars)
               /\ IsDecimalInteger(SubSeq(b, p + 1, Len(b)))

AsciiLower(s) ==
    [i \in 1..Len(s) |-> IF IndexOf(UpperLetters, s[i]) # 0
                         THEN LowerLetters[IndexOf(UpperLetters, s[i])] ELSE s[i]]

IsSpecialFloat(s) ==
    \/ AsciiLower(Unsigned(s)) \in {<<"i", "n", "f">>, <<"i", "n", "f", "i", "n", "i", "t", "y">>}
    \/ AsciiLower(s) = <<"n", "a", "n">>

IsFloatLiteral(s) ==
    IsUnderscoredDecimalFloat(s) \/ IsHexFloat(s) \/ IsSpecialFloat(s)

C17_LiteralsOnly ==
    (ret.op \in NumericScalars /\ Present(ret.key)) =>
        LET s == FirstValue(ret.key)
        IN  IF ret.op = "Float64"
            THEN /\ ~IsFloatLiteral(s) => ret.val = ret.def
                 /\ IsSpecialFloat(s) => ret.val.kind \in {"inf", "nan"}
            ELSE ~IsDecimalInteger(s) => ret.val = ret.def

\* Float64 has returned the default for a value that begins like a special
\* word or a hexadecimal literal and is none
C17_Witness ==
    /\ ret.op = "Float64"
    /\ Present(ret.key)
    /\ Len(FirstValue(ret.key)) >= 3
    /\ \/ AsciiLower(SubSeq(FirstValue(ret.key), 1, 3)) = <<"i", "n", "f">>
       \/ SubSeq(FirstValue(ret.key), 1, 2) = <<"0", "x">>
    /\ ~IsFloatLiteral(FirstValue(ret.key))
    /\ ret.val = ret.def

(***************************************************************************)
(* C18: Ints, Int64s, Float64s and Bools return what Slice returns with    *)
(* the parser of the scalar extractor of the type: element i is that       *)
(* parser's value for the i-th value of the key, or the default; for       *)
(* id=1&id=2&id=invalid&id=5 and default 0, Ints returns [1, 2, 0, 5].     *)
(***************************************************************************)
TypedVariants == {"Ints", "Int64s", "Float64s", "Bools"}

\* the scalar extractor of a typed variant, and the parser that goes with it
ScalarOf(op) ==
    CASE op = "Ints" -> "Int"
      [] op = "Int64s" -> "Int64"
      [] op = "Float64s" -> "Float64"
      [] op = "Bools" -> "Bool"

ParserOf(op) ==
    CASE op = "Ints" -> "strconv.Atoi"
      [] op = "Int64s" -> "ParseInt64"
      [] op = "Float64s" -> "ParseFloat64"
      [] op = "Bools" -> "parseBool"

C18_TypedVariants ==
    ret.op \in TypedVariants =>
        /\ ret.val = Slice(r, ret.key, ret.def, ParserOf(ret.op))
        /\ len(ret.val) = Len(Recorded(ret.key))
        /\ \A i \in 1..Len(Recorded(ret.key)) :
               LET parsed == ScalarParse(ScalarOf(ret.op), Recorded(ret.key)[i])
               IN  ret.val.elems[i] = IF parsed.err = "nil" THEN parsed.val ELSE ret.def
        /\ (/\ ret.op = "Ints"
            /\ ret.key = <<"i", "d">>
            /\ ret.def = IntLit(0)
            /\ Recorded(ret.key) = << <<"1">>, <<"2">>, <<"i", "n", "v", "a", "l", "i", "d">>, <<"5">> >>)
               => ret.val.elems = <<IntLit(1), IntLit(2), IntLit(0), IntLit(5)>>

\* Ints has returned [1, 2, 0, 5]
C18_Witness ==
    /\ ret.op = "Ints"
    /\ ret.def = IntLit(0)
    /\ ret.val.elems = <<IntLit(1), IntLit(2), IntLit(0), IntLit(5)>>

(***************************************************************************)
(* C19: String, Int, Int64, Float64 and Bool look at the first value of    *)
(* the key only: the result is the same on a request with the same first   *)
(* value and other values after it, or none; when the first value is empty *)
(* or does not parse the result is the default, though a later value of    *)
(* the key is valid.                                                       *)
(***************************************************************************)
ScalarOps == {"String", "Int", "Int64", "Float64", "Bool"}

\* the query without the fields of key that come after the first of them
RECURSIVE FirstOnly(_, _)
FirstOnly(query, key) ==
    IF query = <<>> THEN <<>>
    ELSE IF FieldKey(Head(query)).ok /\ FieldKey(Head(query)).key = key
    THEN <<Head(query)>> \o RemoveFields(Tail(query), key)
    ELSE <<Head(query)>> \o FirstOnly(Tail(query), key)

\* values that come after the first: valid for every type, valid for some, empty
LaterValues == {<<"1">>, <<"g", "o">>, <<"1", ".", "5">>, <<>>}

WithQuery(req, query) == [req EXCEPT !.URL.RawQuery = query]

C19_FirstOccurrence ==
    ret.op \in ScalarOps =>
        /\ ret.val = Exec(ret, WithQuery(r, FirstOnly(r.URL.RawQuery, ret.key)))
        /\ Present(ret.key) =>
               \A v \in LaterValues :
                   ret.val = Exec(ret, WithQuery(r, Append(r.URL.RawQuery, Field(ret.key, v))))
        /\ (/\ Present(ret.key)
            /\ \/ FirstValue(ret.key) = EmptyString
               \/ ret.op # "String" /\ ScalarParse(ret.op, FirstValue(ret.key)).err # "nil")
               => ret.val = ret.def

\* a numeric or boolean extractor has returned the default, and not the
\* second value of the key, which parses, for a first value that does not
C19_Witness ==
    /\ ret.op \in ScalarOps \ {"String"}
    /\ Len(Recorded(ret.key)) > 1
    /\ ScalarParse(ret.op, Recorded(ret.key)[1]).err # "nil"
    /\ ScalarParse(ret.op, Recorded(ret.key)[2]).err = "nil"
    /\ ScalarParse(ret.op, Recorded(ret.key)[2]).val # ret.def
    /\ ret.val = ret.def

(***************************************************************************)
(* C20: the keys of the map All returns are the keys for which Has is      *)
(* true, and the map has for each of them the sequence Strings returns:    *)
(* the values of the key in the order of the query string.                 *)
(***************************************************************************)
\* the keys of the fields of the query, decodable or not
QueryKeys(query) == {FieldKey(query[i]).key : i \in 1..Len(query)}

C20_AllKeys ==
    ret.op = "All" =>
        \A k \in LookupKeys \cup DOMAIN ret.val \cup QueryKeys(r.URL.RawQuery) :
            /\ (k \in DOMAIN ret.val) = Has(r, k)
            /\ k \in DOMAIN ret.val =>
                   /\ ret.val[k] = Strings(r, k)
                   /\ ret.val[k].elems = Recorded(k)

\* All has returned a map with a key of one value and a key of several
C20_Witness ==
    /\ ret.op = "All"
    /\ \E k1, k2 \in DOMAIN ret.val : len(ret.val[k1]) = 1 /\ len(ret.val[k2]) > 1

(***************************************************************************)
(* Package headers: the header constants, and the groups whose methods     *)
(* return them.  A header name is a string.                                *)
(***************************************************************************)
\* the constants of the sections Authentication to Privacy
StandardConstants ==
    [ Authorization |-> "Authorization", ProxyAuthorization |-> "Proxy-Authorization",
      WWWAuthenticate |-> "WWW-Authenticate", ProxyAuthenticate |-> "Proxy-Authenticate",
      Age |-> "Age", CacheControl |-> "Cache-Control", ClearSiteData |-> "Clear-Site-Data",
      Expires |-> "Expires", NoVarySearch |-> "No-Vary-Search", ETag |-> "ETag",
      IfMatch |-> "If-Match", IfNoneMatch |-> "If-None-Match",
      IfModifiedSince |-> "If-Modified-Since", IfUnmodifiedSince |-> "If-Unmodified-Since",
      LastModified |-> "Last-Modified", Vary |-> "Vary", Connection |-> "Connection",
      KeepAlive |-> "Keep-Alive", Accept |-> "Accept", AcceptEncoding |-> "Accept-Encoding",
      AcceptLanguage |-> "Accept-Language", AcceptPatch |-> "Accept-Patch",
      AcceptPost |-> "Accept-Post", Expect |-> "Expect", MaxForwards |-> "Max-Forwards",
      Cookie |-> "Cookie", SetCookie |-> "Set-Cookie",
      AccessControlAllowCredentials |-> "Access-Control-Allow-Credentials",
      AccessControlAllowHeaders |-> "Access-Control-Allow-Headers",
      AccessControlAllowMethods |-> "Access-Control-Allow-Methods",
      AccessControlAllowOrigin |-> "Access-Control-Allow-Origin",
      AccessControlExposeHeaders |-> "Access-Control-Expose-Headers",
      AccessControlMaxAge |-> "Access-Control-Max-Age",
      AccessControlRequestHeaders |-> "Access-Control-Request-Headers",
      AccessControlRequestMethod |-> "Access-Control-Request-Method", Origin |-> "Origin",
      TimingAllowOrigin |-> "Timing-Allow-Origin",
      ContentDisposition |-> "Content-Disposition", ContentDigest |-> "Content-Digest",
      ReprDigest |-> "Repr-Digest", WantContentDigest |-> "Want-Content-Digest",
      WantReprDigest |-> "Want-Repr-Digest", ContentEncoding |-> "Content-Encoding",
      ContentLanguage |-> "Content-Language", ContentLength |-> "Content-Length",
      ContentLocation |-> "Content-Location", ContentType |-> "Content-Type",
      Prefer |-> "Prefer", PreferenceApplied |-> "Preference-Applied",
      Forwarded |-> "Forwarded", Via |-> "Via", AcceptRanges |-> "Accept-Ranges",
      ContentRange |-> "Content-Range", IfRange |-> "If-Range", Range |-> "Range",
      Location |-> "Location", Refresh |-> "Refresh", From |-> "From", Host |-> "Host",
      Referer |-> "Referer", ReferrerPolicy |-> "Referrer-Policy", UserAgent |-> "User-Agent",
      Allow |-> "Allow", Server |-> "Server",
      ContentSecurityPolicy |-> "Content-Security-Policy",
      ContentSecurityPolicyReportOnly |-> "Content-Security-Policy-Report-Only",
      CrossOriginEmbedderPolicy |-> "Cross-Origin-Embedder-Policy",
      CrossOriginOpenerPolicy |-> "Cross-Origin-Opener-Policy",
      CrossOriginResourcePolicy |-> "Cross-Origin-Resource-Policy",
      PermissionsPolicy |-> "Permissions-Policy", ReportingEndpoints |-> "Reporting-Endpoints",
      StrictTransportSecurity |-> "Strict-Transport-Security",
      UpgradeInsecureRequests |-> "Upgrade-Insecure-Requests",
      XContentTypeOptions |-> "X-Content-Type-Options", XFrameOptions |-> "X-Frame-Options",
      XPermittedCrossDomainPolicies |-> "X-Permitted-Cross-Domain-Policies",
      XPoweredBy |-> "X-Powered-By", XXSSProtection |-> "X-XSS-Protection",
      SecFetchDest |-> "Sec-Fetch-Dest", SecFetchMode |-> "Sec-Fetch-Mode",
      SecFetchSite |-> "Sec-Fetch-Site", SecFetchUser |-> "Sec-Fetch-User",
      SecPurpose |-> "Sec-Purpose", SecFetchStorageAccess |-> "Sec-Fetch-Storage-Access",
      ActivateStorageAccess |-> "Activate-Storage-Access", ReportTo |-> "Report-To",
      TE |-> "TE", Trailer |-> "Trailer", TransferEncoding |-> "Transfer-Encoding",
      SecWebSocketAccept |-> "Sec-WebSocket-Accept",
      SecWebSocketExtensions |-> "Sec-WebSocket-Extensions",
      SecWebSocketKey |-> "Sec-WebSocket-Key",
      SecWebSocketProtocol |-> "Sec-WebSocket-Protocol",
      SecWebSocketVersion |-> "Sec-WebSocket-Version", AltSvc |-> "Alt-Svc",
      AltUsed |-> "Alt-Used", Date |-> "Date", Link |-> "Link", RetryAfter |-> "Retry-After",
      ServerTiming |-> "Server-Timing", ServiceWorker |-> "Service-Worker",
      ServiceWorkerAllowed |-> "Service-Worker-Allowed",
      ServiceWorkerNavigationPreload |-> "Service-Worker-Navigation-Preload",
      SourceMap |-> "SourceMap", Upgrade |-> "Upgrade", Priority |-> "Priority",
      AcceptCH |-> "Accept-CH", CriticalCH |-> "Critical-CH", SecCHUA |-> "Sec-CH-UA",
      SecCHUAArch |-> "Sec-CH-UA-Arch", SecCHUABitness |-> "Sec-CH-UA-Bitness",
      SecCHUAFormFactors |-> "Sec-CH-UA-Form-Factors",
      SecCHUAFullVersion |-> "Sec-CH-UA-Full-Version",
      SecCHUAFullVersionList |-> "Sec-CH-UA-Full-Version-List",
      SecCHUAMobile |-> "Sec-CH-UA-Mobile", SecCHUAModel |-> "Sec-CH-UA-Model",
      SecCHUAPlatform |-> "Sec-CH-UA-Platform",
      SecCHUAPlatformVersion |-> "Sec-CH-UA-Platform-Version",
      SecCHUAWoW64 |-> "Sec-CH-UA-WoW64",
      SecCHPrefersColorScheme |-> "Sec-CH-Prefers-Color-Scheme",
      SecCHPrefersReducedMotion |-> "Sec-CH-Prefers-Reduced-Motion",
      SecCHPrefersReducedTransparency |-> "Sec-CH-Prefers-Reduced-Transparency",
      SecCHDeviceMemory |-> "Sec-CH-Device-Memory", SecCHDPR |-> "Sec-CH-DPR",
      SecCHViewportHeight |-> "Sec-CH-Viewport-Height",
      SecCHViewportWidth |-> "Sec-CH-Viewport-Width", Downlink |-> "Downlink", ECT |-> "ECT",
      RTT |-> "RTT", SaveData |-> "Save-Data", AvailableDictionary |-> "Available-Dictionary",
      DictionaryID |-> "Dictionary-ID", UseAsDictionary |-> "Use-As-Dictionary", DNT |-> "DNT",
      Tk |-> "Tk", SecGPC |-> "Sec-GPC" ]

NonStandardConstants ==
    [ XForwardedFor |-> "X-Forwarded-For", XForwardedHost |-> "X-Forwarded-Host",
      XForwardedProto |-> "X-Forwarded-Proto",
      XDNSPrefetchControl |-> "X-DNS-Prefetch-Control", XRobotsTag |-> "X-Robots-Tag" ]

\* a variant of DeprecatedConstants in which Pragma has the string of CacheControl
DeprecatedConstantsCopied ==
    [ Pragma |-> "Cache-Control", Warning |-> "Warning" ]

DeprecatedConstants ==
    [ Pragma |-> "Pragma", Warning |-> "Warning" ]

\* the const block: the name of every constant with its string
HeaderConstants == StandardConstants @@ NonStandardConstants @@ DeprecatedConstants

\* the groups: the name of every method with the name of the constant it returns
authHeaders ==
    [ Authorization |-> "Authorization", ProxyAuthorization |-> "ProxyAuthorization",
      WWWAuthenticate |-> "WWWAuthenticate", ProxyAuthenticate |-> "ProxyAuthenticate" ]

cacheHeaders ==
    [ Age |-> "Age", CacheControl |-> "CacheControl", ClearSiteData |-> "ClearSiteData",
      Expires |-> "Expires", NoVarySearch |-> "NoVarySearch", Pragma |-> "Pragma" ]

condHeaders ==
    [ ETag |-> "ETag", IfMatch |-> "IfMatch", IfNoneMatch |-> "IfNoneMatch",
      IfModifiedSince |-> "IfModifiedSince", IfUnmodifiedSince |-> "IfUnmodifiedSince",
      LastModified |-> "LastModified", Vary |-> "Vary" ]

connHeaders ==
    [ Connection |-> "Connection", KeepAlive |-> "KeepAlive" ]

negotiationHeaders ==
    [ Accept |-> "Accept", AcceptEncoding |-> "AcceptEncoding",
      AcceptLanguage |-> "AcceptLanguage", AcceptPatch |-> "AcceptPatch",
      AcceptPost |-> "AcceptPost" ]

cookieHeaders ==
    [ Cookie |-> "Cookie", SetCookie |-> "SetCookie" ]

\* a variant of corsHeaders in which AllowOrigin returns the constant of AllowMethods
corsHeadersCopied ==
    [ AllowCredentials |-> "AccessControlAllowCredentials",
      AllowHeaders |-> "AccessControlAllowHeaders",
      AllowMethods |-> "AccessControlAllowMethods",
      AllowOrigin |-> "AccessControlAllowMethods",
      ExposeHeaders |-> "AccessControlExposeHeaders", MaxAge |-> "AccessControlMaxAge",
      RequestHeaders |-> "AccessControlRequestHeaders",
      RequestMethod |-> "AccessControlRequestMethod", Origin |-> "Origin",
      TimingAllowOrigin |-> "TimingAllowOrigin" ]

corsHeaders ==
    [ AllowCredentials |-> "AccessControlAllowCredentials",
      AllowHeaders |-> "AccessControlAllowHeaders",
      AllowMethods |-> "AccessControlAllowMethods", AllowOrigin |-> "AccessControlAllowOrigin",
      ExposeHeaders |-> "AccessControlExposeHeaders", MaxAge |-> "AccessControlMaxAge",
      RequestHeaders |-> "AccessControlRequestHeaders",
      RequestMethod |-> "AccessControlRequestMethod", Origin |-> "Origin",
      TimingAllowOrigin |-> "TimingAllowOrigin" ]

contentHeaders ==
    [ Disposition |-> "ContentDisposition", Encoding |-> "ContentEncoding",
      Language |-> "ContentLanguage", Length |-> "ContentLength",
      Location |-> "ContentLocation", Type |-> "ContentType", Range |-> "ContentRange" ]

rangeHeaders ==
    [ AcceptRanges |-> "AcceptRanges", ContentRange |-> "ContentRange", IfRange |-> "IfRange",
      Range |-> "Range" ]

redirectHeaders ==
    [ Location |-> "Location", Refresh |-> "Refresh" ]

requestHeaders ==
    [ From |-> "From", Host |-> "Host", Referer |-> "Referer",
      ReferrerPolicy |-> "ReferrerPolicy", UserAgent |-> "UserAgent" ]

responseHeaders ==
    [ Allow |-> "Allow", Server |-> "Server" ]

securityHeaders ==
    [ CSP |-> "ContentSecurityPolicy", CSPReportOnly |-> "ContentSecurityPolicyReportOnly",
      COEP |-> "CrossOriginEmbedderPolicy", COOP |-> "CrossOriginOpenerPolicy",
      CORP |-> "CrossOriginResourcePolicy", PermissionsPolicy |-> "PermissionsPolicy",
      HSTS |-> "StrictTransportSecurity",
      UpgradeInsecureRequests |-> "UpgradeInsecureRequests",
      XContentTypeOptions |-> "XContentTypeOptions", XFrameOptions |-> "XFrameOptions",
      XXSSProtection |-> "XXSSProtection" ]

wsHeaders ==
    [ Accept |-> "SecWebSocketAccept", Extensions |-> "SecWebSocketExtensions",
      Key |-> "SecWebSocketKey", Protocol |-> "SecWebSocketProtocol",
      Version |-> "SecWebSocketVersion" ]

\* the package variables Auth, Cache, ..., WS
Groups ==
    [ Auth |-> authHeaders, Cache |-> cacheHeaders, Cond |-> condHeaders, Conn |-> connHeaders,
      Negotiation |-> negotiationHeaders, Cookies |-> cookieHeaders, CORS |-> corsHeaders,
      Content |-> contentHeaders, Ranges |-> rangeHeaders, Redirect |-> redirectHeaders,
      Request |-> requestHeaders, Response |-> responseHeaders, Security |-> securityHeaders,
      WS |-> wsHeaders ]

\* the table of TestAllGroupedHeaders: the string expected of every method
TestAllGroupedHeaders ==
    [ Auth |->
          [ Authorization |-> "Authorization", ProxyAuthorization |-> "Proxy-Authorization",
            WWWAuthenticate |-> "WWW-Authenticate", ProxyAuthenticate |-> "Proxy-Authenticate" ],
      Cache |->
          [ Age |-> "Age", CacheControl |-> "Cache-Control",
            ClearSiteData |-> "Clear-Site-Data", Expires |-> "Expires",
            NoVarySearch |-> "No-Vary-Search", Pragma |-> "Pragma" ],
      Cond |->
          [ ETag |-> "ETag", IfMatch |-> "If-Match", IfNoneMatch |-> "If-None-Match",
            IfModifiedSince |-> "If-Modified-Since",
            IfUnmodifiedSince |-> "If-Unmodified-Since", LastModified |-> "Last-Modified",
            Vary |-> "Vary" ],
      Conn |->
          [ Connection |-> "Connection", KeepAlive |-> "Keep-Alive" ],
      Negotiation |->
          [ Accept |-> "Accept", AcceptEncoding |-> "Accept-Encoding",
            AcceptLanguage |-> "Accept-Language", AcceptPatch |-> "Accept-Patch",
            AcceptPost |-> "Accept-Post" ],
      Cookies |->
          [ Cookie |-> "Cookie", SetCookie |-> "Set-Cookie" ],
      CORS |->
          [ AllowCredentials |-> "Access-Control-Allow-Credentials",
            AllowHeaders |-> "Access-Control-Allow-Headers",
            AllowMethods |-> "Access-Control-Allow-Methods",
            AllowOrigin |-> "Access-Control-Allow-Origin",
            ExposeHeaders |-> "Access-Control-Expose-Headers",
            MaxAge |-> "Access-Control-Max-Age",
            RequestHeaders |-> "Access-Control-Request-Headers",
            RequestMethod |-> "Access-Control-Request-Method", Origin |-> "Origin",
            TimingAllowOrigin |-> "Timing-Allow-Origin" ],
      Content |->
          [ Disposition |-> "Content-Disposition", Encoding |-> "Content-Encoding",
            Language |-> "Content-Language", Length |-> "Content-Length",
            Location |-> "Content-Location", Type |-> "Content-Type",
            Range |-> "Content-Range" ],
      Ranges |->
          [ AcceptRanges |-> "Accept-Ranges", ContentRange |-> "Content-Range",
            IfRange |-> "If-Range", Range |-> "Range" ],
      Redirect |->
          [ Location |-> "Location", Refresh |-> "Refresh" ],
      Request |->
          [ From |-> "From", Host |-> "Host", Referer |-> "Referer",
            ReferrerPolicy |-> "Referrer-Policy", UserAgent |-> "User-Agent" ],
      Response |->
          [ Allow |-> "Allow", Server |-> "Server" ],
      Security |->
          [ CSP |-> "Content-Security-Policy",
            CSPReportOnly |-> "Content-Security-Policy-Report-Only",
            COEP |-> "Cross-Origin-Embedder-Policy", COOP |-> "Cross-Origin-Opener-Policy",
            CORP |-> "Cross-Origin-Resource-Policy",
            PermissionsPolicy |-> "Permissions-Policy", HSTS |-> "Strict-Transport-Security",
            UpgradeInsecureRequests |-> "Upgrade-Insecure-Requests",
            XContentTypeOptions |-> "X-Content-Type-Options",
            XFrameOptions |-> "X-Frame-Options", XXSSProtection |-> "X-XSS-Protection" ],
      WS |->
          [ Accept |-> "Sec-WebSocket-Accept", Extensions |-> "Sec-WebSocket-Extensions",
            Key |-> "Sec-WebSocket-Key", Protocol |-> "Sec-WebSocket-Protocol",
            Version |-> "Sec-WebSocket-Version" ] ]
\* a method m of the group g returns its constant
Accessor(g, m) == HeaderConstants[Groups[g][m]]

CallAccessor ==
    /\ Idle
    /\ \E g \in DOMAIN Groups : \E m \in DOMAIN Groups[g] :
           ret' = Scalar("Accessor", <<g, m>>, FALSE, "string", Accessor(g, m))
    /\ UNCHANGED <<r, r0, intSize, callers>>

\* the program uses the constant c
ReadConstant ==
    /\ Idle
    /\ \E c \in DOMAIN HeaderConstants :
           ret' = Scalar("Constant", <<c>>, FALSE, "string", HeaderConstants[c])
    /\ UNCHANGED <<r, r0, intSize, callers>>

InitHeaders == InitWith({<<>>})

NextHeaders ==
    \/ CallAccessor
    \/ ReadConstant
    \/ Discard

SpecHeaders == InitHeaders /\ [][NextHeaders]_vars

(***************************************************************************)
(* C21: every method of the groups Auth, Cache, Cond, Conn, Negotiation,   *)
(* Cookies, CORS, Content, Ranges, Redirect, Request, Response, Security   *)
(* and WS returns the string of a constant of the package, the one the     *)
(* test table expects of it: CORS.AllowOrigin returns                      *)
(* "Access-Control-Allow-Origin", Security.HSTS returns                    *)
(* "Strict-Transport-Security".                                            *)
(***************************************************************************)
C21_GroupedAccessors ==
    ret.op = "Accessor" =>
        LET g == ret.key[1]
            m == ret.key[2]
        IN  /\ g \in DOMAIN TestAllGroupedHeaders
            /\ m \in DOMAIN TestAllGroupedHeaders[g]
            /\ ret.val = TestAllGroupedHeaders[g][m]
            /\ \E c \in DOMAIN HeaderConstants : HeaderConstants[c] = ret.val
            /\ ret.key = <<"CORS", "AllowOrigin">> => ret.val = "Access-Control-Allow-Origin"
            /\ ret.key = <<"Security", "HSTS">> => ret.val = "Strict-Transport-Security"

\* Security.HSTS has returned "Strict-Transport-Security"
C21_Witness ==
    /\ ret.op = "Accessor"
    /\ ret.key = <<"Security", "HSTS">>
    /\ ret.val = "Strict-Transport-Security"

(***************************************************************************)
(* C22: no two constants of the package have the same string.              *)
(***************************************************************************)
C22_DistinctConstants ==
    ret.op = "Constant" =>
        /\ \A c \in DOMAIN HeaderConstants \ {ret.key[1]} : HeaderConstants[c] # ret.val
        /\ Cardinality({HeaderConstants[c] : c \in DOMAIN HeaderConstants})
               = Cardinality(DOMAIN HeaderConstants)

\* the program has read Pragma, a constant of the last section
C22_Witness ==
    /\ ret.op = "Constant"
    /\ ret.key = <<"Pragma">>
    /\ ret.val = "Pragma"

(***************************************************************************)
(* C23: Bool tests for the empty value first and matches the vocabulary    *)
(* second: for an absent key or an empty first value it returns the        *)
(* default and does not call parseBool; for any other first value it calls *)
(* parseBool once, with that value, and returns the default when parseBool *)
(* fails.                                                                  *)
(***************************************************************************)
C23_BoolTwoStage ==
    ret.op = "Bool" =>
        IF ~Present(ret.key) \/ FirstValue(ret.key) = EmptyString
        THEN ret.calls = <<>> /\ ret.val = ret.def
        ELSE /\ ret.calls = <<FirstValue(ret.key)>>
             /\ parseBool(FirstValue(ret.key)).err # "nil" => ret.val = ret.def

\* Bool has returned the default true for an empty first value without a
\* call of parseBool
C23_Witness ==
    /\ ret.op = "Bool"
    /\ Present(ret.key)
    /\ FirstValue(ret.key) = EmptyString
    /\ ret.calls = <<>>
    /\ ret.def = TRUE
    /\ ret.val = TRUE

(***************************************************************************)
(* C24: for a key with exactly one value, Bools returns the sequence of    *)
(* one element that is what Bool returns for the same key and default.     *)
(***************************************************************************)
C24_BoolsAsBool ==
    Len(Recorded(ret.key)) = 1 =>
        /\ ret.op = "Bools" => ret.val.elems = <<Bool(r, ret.key, ret.def)>>
        /\ ret.op = "Bool" => Bools(r, ret.key, ret.def) = MakeSlice(<<ret.val>>)

\* Bools has returned [true], against the default false, for one value that
\* is not in lower case or is padded
C24_Witness ==
    /\ ret.op = "Bools"
    /\ Len(Recorded(ret.key)) = 1
    /\ Folded(Recorded(ret.key)[1]) # Recorded(ret.key)[1]
    /\ ret.def = FALSE
    /\ ret.val.elems = <<TRUE>>

(***************************************************************************)
(* C25: First of a typed sequence, with the default of the sequence, is    *)
(* what the scalar extractor of the type returns: First(Ints(r, key, d),   *)
(* d) = Int(r, key, d), and so for Int64s, Float64s and Bools.             *)
(***************************************************************************)
C25_FirstOfTyped ==
    ret.op \in ScalarOps \ {"String"} =>
        LET typed == CHOOSE op \in TypedVariants : ScalarOf(op) = ret.op
        IN  First(Exec([ret EXCEPT !.op = typed], r), ret.def) = Return(ret.val)

\* a scalar extractor has returned the default for a first value that does
\* not parse, of a key whose typed sequence has a second element that is
\* not the default
C25_Witness ==
    /\ ret.op \in ScalarOps \ {"String"}
    /\ Len(Recorded(ret.key)) > 1
    /\ Recorded(ret.key)[1] # EmptyString
    /\ ScalarParse(ret.op, Recorded(ret.key)[1]).err # "nil"
    /\ ScalarParse(ret.op, Recorded(ret.key)[2]).err = "nil"
    /\ ScalarParse(ret.op, Recorded(ret.key)[2]).val # ret.def
    /\ ret.val = ret.def

C27_StringVsFirst ==
    ret.op = "String" =>
        IF Present(ret.key) /\ FirstValue(ret.key) = EmptyString
        THEN /\ ret.val = ret.def
             /\ First(Strings(r, ret.key), ret.def) = Return(EmptyString)
        ELSE First(Strings(r, ret.key), ret.def) = Return(ret.val)

\* String has returned a default that First of Strings does not return
C27_Witness ==
    /\ ret.op = "String"
    /\ Present(ret.key)
    /\ ret.val = ret.def
    /\ First(Strings(r, ret.key), ret.def) = Return(EmptyString)
    /\ ret.val # EmptyString

(***************************************************************************)
(* C28: no key of the multi-map of a query string has zero values: Has is  *)
(* true if and only if Count is at least 1, if and only if Strings is not  *)
(* empty; IsMultiple implies Has.                                          *)
(***************************************************************************)
C28_NoEmptyKey ==
    /\ \A k \in DOMAIN MultiMap : Len(MultiMap[k]) >= 1
    /\ ret.op = "Has" =>
           /\ ret.val = (Count(r, ret.key) >= 1)
           /\ ret.val = (len(Strings(r, ret.key)) > 0)
    /\ ret.op = "Count" =>
           /\ (ret.val >= 1) = Has(r, ret.key)
           /\ (ret.val >= 1) = (len(Strings(r, ret.key)) > 0)
    /\ ret.op = "Strings" =>
           /\ (len(ret.val) > 0) = Has(r, ret.key)
           /\ (len(ret.val) > 0) = (Count(r, ret.key) >= 1)
    /\ (ret.op = "IsMultiple" /\ ret.val) => Has(r, ret.key)

\* Count has returned 1 for a key that the query string names in one field,
\* without a value
C28_Witness ==
    /\ ret.op = "Count"
    /\ ret.val = 1
    /\ Recorded(ret.key) = <<EmptyString>>

(***************************************************************************)
(* C29: after the caller has overwritten or appended an element of a       *)
(* sequence that Strings or a sequence extractor returned, every           *)
(* extraction, presence, cardinality and All call on the request returns   *)
(* what it returned before.                                                *)
(***************************************************************************)
C29_SlicesDecoupled ==
    (ret.op = "mutated" /\ ret.of \in SliceOps) =>
        \* the write has not reached the request, or every call returns what it did
        r = r0 \/ Results(r) = Results(r0)

\* the caller has written to the sequence Strings returned, and Strings on
\* the request still gives the values as they were
C29_Witness ==
    /\ ret.op = "mutated"
    /\ ret.of = "Strings"
    /\ len(ret.val) > 0
    /\ ret.val # Strings(r, ret.key)
    /\ Strings(r, ret.key) = Strings(r0, ret.key)

(***************************************************************************)
(* Several goroutines call into the package with the same request.  A call *)
(* takes its arguments, reads r.URL.Query(), which parses RawQuery into a  *)
(* map of its own, and returns what it computes from that map.             *)
(***************************************************************************)
\* the calls a goroutine makes: every function that takes the request, every
\* key, one default for each type
ConcurrentCalls ==
    {Scalar(op, key, IF op = "String" THEN <<"d", "e", "f">>
                     ELSE IF op = "Float64" THEN FloatZero(FALSE)
                     ELSE IF op = "Bool" THEN TRUE
                     ELSE NegLit(1), "", FALSE) :
        op \in ScalarOps \cup TypedVariants, key \in LookupKeys}
    \cup {Scalar(op, key, FALSE, "", FALSE) :
             op \in {"Strings", "Has", "Count", "IsMultiple"}, key \in LookupKeys}
    \cup {[Scalar("Slice", key, NegLit(1), "", FALSE) EXCEPT !.parser = p] :
             key \in LookupKeys, p \in {"strconv.Atoi", "ParseInt64", "lengthParser"}}
    \cup {Scalar("All", <<>>, FALSE, "", FALSE)}

\* a goroutine calls a function of the package
Enter(c) ==
    /\ callers[c].pc = "idle"
    /\ \E call \in ConcurrentCalls :
           callers' = [callers EXCEPT ![c].pc = "called", ![c].call = call]
    /\ UNCHANGED <<r, r0, intSize, ret>>

\* a variant of ReadQuery for a call that takes the values of its key out of
\* the request
ReadQueryConsuming(c) ==
    /\ callers[c].pc = "called"
    /\ callers' = [callers EXCEPT ![c].pc = "parsed", ![c].read = r.URL]
    /\ r' = [r EXCEPT !.URL.RawQuery = RemoveFields(@, callers[c].call.key)]
    /\ UNCHANGED <<r0, intSize, ret>>

\* the call reads r.URL.Query()
ReadQuery(c) ==
    /\ callers[c].pc = "called"
    /\ callers' = [callers EXCEPT ![c].pc = "parsed", ![c].read = r.URL]
    /\ UNCHANGED <<r, r0, intSize, ret>>

\* the call returns what it computes from the map it read
Finish(c) ==
    /\ callers[c].pc = "parsed"
    /\ callers' = [callers EXCEPT
                      ![c].pc = "returned",
                      ![c].call.val = Exec(callers[c].call, [URL |-> callers[c].read]),
                      ![c].overlapped =
                          \E d \in Callers \ {c} : callers[d].pc \in {"called", "parsed"}]
    /\ UNCHANGED <<r, r0, intSize, ret>>

InitConcurrent == InitWith(Scenarios)

NextConcurrent == \E c \in Callers : Enter(c) \/ ReadQuery(c) \/ Finish(c)

SpecConcurrent == InitConcurrent /\ [][NextConcurrent]_vars

(***************************************************************************)
(* C30: calls of several goroutines on the same request do not interfere:  *)
(* however their steps interleave, every call returns what it returns when *)
(* it runs alone, and the request stays as it came.                        *)
(***************************************************************************)
C30_NoInterference ==
    /\ r = r0
    /\ \A c \in Callers :
           callers[c].pc = "returned" => callers[c].call.val = Exec(callers[c].call, r0)

\* a call on a key with several values has returned while a call of another
\* goroutine on the same key was in flight
C30_Witness ==
    \E c \in Callers : \E d \in Callers \ {c} :
        /\ callers[c].pc = "returned"
        /\ callers[c].overlapped
        /\ callers[d].pc \in {"parsed", "returned"}
        /\ callers[c].call.key = callers[d].call.key
        /\ callers[c].call.op # callers[d].call.op
        /\ Count(r0, callers[c].call.key) > 1

====
